---------------------------- MODULE Spec2Model ----------------------------
(***************************************************************************)
(* A model of the zero-knowledge license engine of                         *)
(* src/js/ZeroKnowledgeLicense.ts (class ZeroKnowledgeLicense):            *)
(* createLicense, createProofRequest, generateProof and verifyProof with   *)
(* the six per-type generators and verifiers, the verification cache, the  *)
(* rate limiter and the cryptographic primitives as the code computes      *)
(* them.                                                                   *)
(*                                                                         *)
(* Strings of the program are TLA+ strings.  sha256 is modelled as a       *)
(* collision-free symbolic hash "h(" + input + ")".  hashToScalar of a     *)
(* random string is a random-oracle value kept in hashOracle.  Values of   *)
(* crypto.randomBytes used as identifiers (ids, challenges, nonces) are    *)
(* fresh names numbered by counters.  The 254-bit moduli are scaled down   *)
(* to small primes that keep groupOrder < fieldModulus.                    *)
(***************************************************************************)
EXTENDS Integers, Sequences, FiniteSets, TLC

VARIABLES
    commitments,          \* Map<string, LicenseCommitment>: id -> commitment
    proofCache,           \* Map<string, {result, expiresAt}>: proofId -> entry
    proofCounts,          \* Map<string, number>: commitmentId -> count
    proofCountReset,      \* Date of the last limiter reset (ms)
    totalProofsGenerated,
    totalProofsVerified,
    totalValidProofs,
    totalInvalidProofs,
    now,                  \* Date.now() in ms
    hashOracle,           \* hashToScalar on the random strings hashed so far
    nextId,               \* number of random identifiers drawn so far
    licenses,             \* the {commitment, secret} pairs createLicense returned
    requests,             \* the ProofRequests createProofRequest returned
    proofs,               \* the ZKProof objects generateProof returned
    ret,                  \* the outcome of the last call
    accepted,             \* history: <<proofId, challenge>> of accepted proofs
    passed,               \* history: limiter passes per commitment since reset
    ticks,                \* history: number of steps of the clock
    emitted,              \* number of 'proof:verified' events emitted
    mk,                   \* the Merkle tree exercise (SpecMerkle)
    pending,              \* promises of generateProof not yet awaited
    passLog,              \* history: <<commitmentId, time>> of limiter passes
    pair,                 \* two licenses taken through one request (SpecPair)
    pc,                   \* the commitment algebra exercise (SpecCommit)
    gate,                 \* the paywall page of PaymentGateway (SpecPaywall)
    bp                    \* the NeuralBackpack and its callers (SpecBackpack)

engineVars == <<commitments, proofCache, proofCounts, proofCountReset,
                totalProofsGenerated, totalProofsVerified, totalValidProofs,
                totalInvalidProofs, now, hashOracle, nextId, licenses,
                requests, proofs, ret, accepted, passed, ticks, emitted>>

vars == <<commitments, proofCache, proofCounts, proofCountReset,
          totalProofsGenerated, totalProofsVerified, totalValidProofs,
          totalInvalidProofs, now, hashOracle, nextId, licenses,
          requests, proofs, ret, accepted, passed, ticks, emitted, mk,
          pending, passLog, pair, pc, gate, bp>>

\* The variables no call of the engine writes.
pureVars == <<mk, pending, passLog, pair, pc, gate, bp>>

---------------------------------------------------------------------------
(* Strings and numbers                                                     *)

HexDigit(n) ==
    <<"0", "1", "2", "3", "4", "5", "6", "7",
      "8", "9", "a", "b", "c", "d", "e", "f">>[n + 1]

\* bigint.toString(16): a leading "-" for a negative value.
RECURSIVE toHex(_)
toHex(n) ==
    IF n < 0 THEN "-" \o toHex(-n)
    ELSE IF n < 16 THEN HexDigit(n)
    ELSE toHex(n \div 16) \o HexDigit(n % 16)

\* number.toString(): decimal.
toDec(n) == ToString(n)

RECURSIVE Zeros(_)
Zeros(n) == IF n <= 0 THEN "" ELSE "0" \o Zeros(n - 1)

\* The width of a rendered commitment, padStart(64, '0').
PadWidth == 64

ZeroPad == [n \in 0..PadWidth |-> Zeros(n)]

padStart(s) == IF Len(s) >= PadWidth THEN s ELSE ZeroPad[PadWidth - Len(s)] \o s

\* The % of JavaScript BigInt: truncated, the sign of the dividend.
jsRem(a, m) == IF a >= 0 THEN a % m ELSE -((-a) % m)


\* BigInt('0x' + s) accepts s when it is a run of hex digits; the values the
\* model parses stay below ParseLimit.
ParseLimit == 64

hexOf == [n \in 0..ParseLimit |-> toHex(n)]

paddedHexOf == [n \in 0..ParseLimit |-> padStart(toHex(n))]

isHex(s) == \E n \in 0..ParseLimit : s = hexOf[n] \/ s = paddedHexOf[n]

parseHex(s) == CHOOSE n \in 0..ParseLimit : s = hexOf[n] \/ s = paddedHexOf[n]

RECURSIVE join(_)
join(values) ==
    IF values = <<>> THEN "" ELSE Head(values) \o join(Tail(values))

RECURSIVE joinComma(_)
joinComma(values) ==
    IF values = <<>> THEN ""
    ELSE IF Len(values) = 1 THEN Head(values)
    ELSE Head(values) \o "," \o joinComma(Tail(values))

---------------------------------------------------------------------------
(* Cryptographic primitives                                                *)

\* circuitParams: the generators' x coordinates and the two moduli.  The
\* moduli stand for the 254-bit primes of the source, scaled down.
g1x == 1
hx == 5
fieldModulus == 11
groupOrder == 7

Scalars == 0..(groupOrder - 1)

\* sha256(...).digest('hex'), collision-free.
hashValue(value) == "h(" \o value \o ")"

hashValues(values) == hashValue(join(values))

\* pedersenCommit with a constant term added to the combination.
pedersenCommitAffine(value, blinding) ==
    padStart(toHex(jsRem(value * g1x + blinding * hx + 1, fieldModulus)))

pedersenCommit(value, blinding) ==
    padStart(toHex(jsRem(value * g1x + blinding * hx, fieldModulus)))

pedersenVerify(s1, s2, c, commitment) ==
    LET C == parseHex(commitment)
    IN  padStart(toHex(jsRem(s1 * g1x + s2 * hx - c * C, fieldModulus)))

\* The browser variant: the while loop of modPow, from its state after k
\* rounds.
RECURSIVE modPowLoop(_, _, _, _)
modPowLoop(res, base, exp, mod) ==
    IF exp > 0
    THEN modPowLoop(IF exp % 2 = 1 THEN jsRem(res * base, mod) ELSE res,
                    jsRem(base * base, mod), exp \div 2, mod)
    ELSE res

modPow(base, exp, mod) == modPowLoop(1, jsRem(base, mod), exp, mod)

\* The browser variant of pedersenCommit: (g^v * h^r) mod p.
pedersenCommitReal(value, blinding) ==
    LET g_v == modPow(g1x, value, fieldModulus)
        h_r == modPow(hx, blinding, fieldModulus)
    IN  padStart(toHex(jsRem(g_v * h_r, fieldModulus)))

---------------------------------------------------------------------------
(* Feature registry: the Merkle tree over a tier's feature list            *)

nextLevel(currentLevel) ==
    [j \in 1..((Len(currentLevel) + 1) \div 2) |->
        LET left == currentLevel[2 * j - 1]
            right == IF 2 * j <= Len(currentLevel)
                     THEN currentLevel[2 * j] ELSE left
        IN  hashValues(<<left, right>>)]

RECURSIVE buildLevels(_)
buildLevels(currentLevel) ==
    IF Len(currentLevel) > 1
    THEN <<currentLevel>> \o buildLevels(nextLevel(currentLevel))
    ELSE <<currentLevel>>

\* The path and indices of the leaf at 0-based position index, from level on.
\* A level's last node without a sibling contributes no path element.
RECURSIVE merklePath(_, _, _)
merklePath(levels, level, index) ==
    IF level > Len(levels) - 1 THEN [path |-> <<>>, indices |-> <<>>]
    ELSE LET siblingIndex == IF index % 2 = 0 THEN index + 1 ELSE index - 1
             rest == merklePath(levels, level + 1, index \div 2)
         IN  IF siblingIndex < Len(levels[level])
             THEN [path |-> <<levels[level][siblingIndex + 1]>> \o rest.path,
                   indices |-> <<index % 2>> \o rest.indices]
             ELSE rest

createFeatureMerkleTree(features) ==
    LET leaves == [i \in 1..Len(features) |-> hashValue(features[i])]
        levels == buildLevels(leaves)
        top == levels[Len(levels)]
    IN  [root |-> IF Len(top) > 0 THEN top[1] ELSE hashValue("empty"),
         proofs |-> [i \in 1..Len(features) |->
                        LET p == merklePath(levels, 1, i - 1)
                        IN  [feature |-> features[i], leaf |-> leaves[i],
                             path |-> p.path, indices |-> p.indices]]]

\* The fold of a sibling path from a leaf: an index of 0 puts the running
\* hash on the left.  A path element '0' is skipped.
RECURSIVE foldPath(_, _, _)
foldPath(currentHash, pathElements, indices) ==
    IF pathElements = <<>> THEN currentHash
    ELSE LET e == Head(pathElements)
             i == IF indices = <<>> THEN -1 ELSE Head(indices)
             rest == IF indices = <<>> THEN <<>> ELSE Tail(indices)
             h == IF e = "0" THEN currentHash
                  ELSE IF i = 0 THEN hashValues(<<currentHash, e>>)
                  ELSE hashValues(<<e, currentHash>>)
         IN  foldPath(h, Tail(pathElements), rest)

\* The deepest sibling path the model renders as a string of indices.
MaxDepth == 4

IndexSeqs == UNION {[1..n -> {0, 1}] : n \in 1..MaxDepth}

renderIndices(indices) ==
    joinComma([i \in DOMAIN indices |-> toDec(indices[i])])

\* s.split(',').map(Number): "" gives [0]; an entry that is no number gives
\* NaN, which the fold treats as an index other than 0.
splitIndices(s) ==
    IF s = "" THEN <<0>>
    ELSE IF \E q \in IndexSeqs : renderIndices(q) = s
    THEN CHOOSE q \in IndexSeqs : renderIndices(q) = s
    ELSE <<>>

---------------------------------------------------------------------------
(* Configuration (DEFAULT_CONFIG)                                          *)

Tiers == {"trial", "starter", "professional", "enterprise", "unlimited"}

ProofTypes == {"license-ownership", "tier-membership", "feature-access",
               "usage-quota", "time-validity", "worker-allocation"}

enabledFeatures ==
    <<"basic-crawling", "stealth-mode", "swarm-workers", "ai-oracle",
      "visual-testing", "api-access", "priority-support", "custom-training",
      "white-label", "on-premise">>

tierHierarchy ==
    [t \in Tiers |->
        CASE t = "trial" -> 1
          [] t = "starter" -> 2
          [] t = "professional" -> 3
          [] t = "enterprise" -> 4
          [] t = "unlimited" -> 5]

tierLimits ==
    [t \in Tiers |->
        CASE t = "trial" ->
               [maxWorkers |-> 1, monthlyQuota |-> 1000,
                features |-> <<"basic-crawling">>]
          [] t = "starter" ->
               [maxWorkers |-> 5, monthlyQuota |-> 100000,
                features |-> <<"basic-crawling", "stealth-mode", "api-access">>]
          [] t = "professional" ->
               [maxWorkers |-> 25, monthlyQuota |-> 1000000,
                features |-> <<"basic-crawling", "stealth-mode", "swarm-workers",
                               "ai-oracle", "api-access">>]
          [] t = "enterprise" ->
               [maxWorkers |-> 100, monthlyQuota |-> 10000000,
                features |-> <<"basic-crawling", "stealth-mode", "swarm-workers",
                               "ai-oracle", "visual-testing", "api-access",
                               "priority-support">>]
          [] t = "unlimited" ->
               [maxWorkers |-> 1000, monthlyQuota |-> -1,
                features |-> enabledFeatures]]

proofExpirationMs == 300000
verificationCacheMs == 60000
\* The length of the limiter's window, in ms.
rateWindowMs == 3600000

\* config.maxProofsPerHour of the modelled instance (the default is 1000).
maxProofsPerHour == 2

---------------------------------------------------------------------------
(* Random values                                                           *)

\* crypto.randomBytes(..).toString('hex'): the n-th value drawn, a fresh name.
randomHex(n) == "rb" \o ToString(n)

generateId(prefix, n) == prefix \o "_" \o randomHex(n)

generateLicenseKey(n) == "QP-" \o randomHex(n)

generateBlindingFactors(n) ==
    [license |-> randomHex(n), tier |-> randomHex(n + 1),
     expiration |-> randomHex(n + 2)]

\* createHmac('sha256', master).update(purpose).digest('hex'), collision-free.
deriveSecret(master, purpose) == "hmac(" \o master \o "," \o purpose \o ")"

\* hashToScalar of a string the oracle has answered.
hashToScalar(oracle, value) == oracle[value]

Extend(f, k, v) == [x \in (DOMAIN f) \cup {k} |-> IF x = k THEN v ELSE f[x]]

has(m, k) == k \in DOMAIN m

---------------------------------------------------------------------------
(* createLicense                                                           *)

\* The objects createLicense(tier, expirationDate) builds.  n is the number of
\* random values drawn before the call; kx, kb, kt, ke are the oracle's answers
\* for the license key and the three blinding factors.
newLicense(tier, expirationTimestamp, n, kx, kb, kt, ke, createdAt) ==
    LET licenseKey == generateLicenseKey(n)
        blindingFactors == generateBlindingFactors(n + 1)
        licenseCommitment == pedersenCommit(kx, kb)
        tierValue == tierHierarchy[tier]
        tierCommitment == pedersenCommit(tierValue, kt)
        expirationCommitment == pedersenCommit(expirationTimestamp, ke)
        limits == tierLimits[tier]
        featureMerkleData == createFeatureMerkleTree(limits.features)
        masterSecret == deriveSecret(licenseKey, "master")
        commitmentId == generateId("cmt", n + 4)
    IN  [commitment |->
            [commitmentId |-> commitmentId,
             commitment |-> licenseCommitment,
             tierCommitment |-> tierCommitment,
             expirationCommitment |-> expirationCommitment,
             featureMerkleRoot |-> featureMerkleData.root,
             createdAt |-> createdAt,
             verificationKeyHash |->
                 hashValues(<<licenseCommitment, tierCommitment,
                              expirationCommitment, featureMerkleData.root>>)],
         secret |->
            [licenseKey |-> licenseKey,
             blindingFactors |-> blindingFactors,
             masterSecret |-> masterSecret,
             proofSecret |-> deriveSecret(masterSecret, "proof"),
             witnessData |->
                [tier |-> tier,
                 tierValue |-> tierValue,
                 expirationTimestamp |-> expirationTimestamp,
                 maxWorkers |-> limits.maxWorkers,
                 enabledFeatures |-> limits.features,
                 usageQuota |-> limits.monthlyQuota,
                 usedQuota |-> 0,
                 featureMerkleProofs |-> featureMerkleData.proofs]]]

---------------------------------------------------------------------------
(* Proof generation: the six generators                                    *)
(*                                                                         *)
(* rnd holds the random scalars of one call: r, k (randomScalar), u, v, w, *)
(* z (the scalars of L and R) and c, the oracle's answer for the           *)
(* Fiat-Shamir transcript, which contains the call's fresh nonce.          *)

NoBody == [a |-> <<"", "">>, b |-> <<<<"", "">>, <<"", "">>>>, c |-> <<"", "">>]

Built(proof, publicInputs) ==
    [ok |-> TRUE, error |-> "", proof |-> proof, publicInputs |-> publicInputs]

Thrown(message) ==
    [ok |-> FALSE, error |-> message, proof |-> NoBody, publicInputs |-> <<>>]

generateOwnershipProof(oracle, secret, commitment, challenge, nonce, rnd) ==
    LET t == pedersenCommit(rnd.r, rnd.k)
        c == rnd.c
        s1 == jsRem(rnd.r + c * hashToScalar(oracle, secret.licenseKey),
                    groupOrder)
        s2 == jsRem(rnd.k + c * hashToScalar(oracle, secret.blindingFactors.license),
                    groupOrder)
    IN  Built([a |-> <<t, toHex(s1)>>,
               b |-> <<<<toHex(s2), toHex(c)>>, <<"0", "0">>>>,
               c |-> <<commitment.commitment, nonce>>],
              <<commitment.commitment, challenge, commitment.verificationKeyHash>>)

generateTierMembershipProof(secret, commitment, minimumTier, challenge, nonce, rnd) ==
    LET requiredValue == tierHierarchy[minimumTier]
        actualValue == secret.witnessData.tierValue
        difference == actualValue - requiredValue
        diffCommitment == pedersenCommit(difference, rnd.r)
        L == pedersenCommit(rnd.u, rnd.v)
        R == pedersenCommit(rnd.w, rnd.z)
    IN  Built([a |-> <<diffCommitment, L>>,
               b |-> <<<<R, toHex(rnd.c)>>, <<toHex(rnd.r), "0">>>>,
               c |-> <<commitment.tierCommitment, nonce>>],
              <<commitment.tierCommitment, toDec(requiredValue), challenge>>)

\* featureMerkleProofs.get(requiredFeature): the entries stored under the name.
merkleProofsOf(secret, requiredFeature) ==
    {i \in DOMAIN secret.witnessData.featureMerkleProofs :
        secret.witnessData.featureMerkleProofs[i].feature = requiredFeature}

generateFeatureAccessProof(secret, commitment, requiredFeature, challenge, nonce, rnd) ==
    IF merkleProofsOf(secret, requiredFeature) = {}
    THEN Thrown("Feature " \o requiredFeature \o " not in license")
    ELSE
    LET merkleProof == secret.witnessData.featureMerkleProofs[
                           CHOOSE i \in merkleProofsOf(secret, requiredFeature) : TRUE]
        featureHash == hashValue(requiredFeature)
        pathCommitment == hashValues(merkleProof.path)
        at(i) == IF i <= Len(merkleProof.path) THEN merkleProof.path[i] ELSE "0"
    IN  Built([a |-> <<merkleProof.leaf, pathCommitment>>,
               b |-> <<<<at(1), at(2)>>,
                       <<renderIndices(merkleProof.indices), toHex(rnd.c)>>>>,
               c |-> <<commitment.featureMerkleRoot, nonce>>],
              <<commitment.featureMerkleRoot, featureHash, challenge>>)

\* generateQuotaProof refusing a request for the whole of the remaining quota.
generateQuotaProofStrict(secret, commitment, requiredQuota, challenge, nonce, rnd) ==
    LET remaining == secret.witnessData.usageQuota - secret.witnessData.usedQuota
    IN  IF remaining <= requiredQuota THEN Thrown("Insufficient quota")
        ELSE
        LET difference == remaining - requiredQuota
            diffCommitment == pedersenCommit(difference, rnd.r)
        IN  Built([a |-> <<diffCommitment, toHex(rnd.c)>>,
                   b |-> <<<<toHex(rnd.r), "0">>, <<"0", "0">>>>,
                   c |-> <<commitment.commitment, nonce>>],
                  <<toDec(requiredQuota), challenge>>)

generateQuotaProof(secret, commitment, requiredQuota, challenge, nonce, rnd) ==
    LET remaining == secret.witnessData.usageQuota - secret.witnessData.usedQuota
    IN  IF remaining < requiredQuota THEN Thrown("Insufficient quota")
        ELSE
        LET difference == remaining - requiredQuota
            diffCommitment == pedersenCommit(difference, rnd.r)
        IN  Built([a |-> <<diffCommitment, toHex(rnd.c)>>,
                   b |-> <<<<toHex(rnd.r), "0">>, <<"0", "0">>>>,
                   c |-> <<commitment.commitment, nonce>>],
                  <<toDec(requiredQuota), challenge>>)

generateWorkerAllocationProof(secret, commitment, requestedWorkers, challenge, nonce, rnd) ==
    LET maxWorkers == secret.witnessData.maxWorkers
    IN  IF requestedWorkers > maxWorkers THEN Thrown("Exceeds worker limit")
        ELSE
        LET difference == maxWorkers - requestedWorkers
            diffCommitment == pedersenCommit(difference, rnd.r)
        IN  Built([a |-> <<diffCommitment, toHex(rnd.c)>>,
                   b |-> <<<<toHex(rnd.r), toDec(maxWorkers)>>, <<"0", "0">>>>,
                   c |-> <<commitment.tierCommitment, nonce>>],
                  <<toDec(requestedWorkers), challenge>>)

\* generateTimeValidityProof taking a license that expires at
\* currentTimestamp for unexpired.
generateTimeValidityProofAtExpiry(secret, commitment, currentTimestamp, challenge, nonce, rnd) ==
    LET expiration == secret.witnessData.expirationTimestamp
    IN  IF expiration < currentTimestamp THEN Thrown("License expired")
        ELSE
        LET difference == expiration - currentTimestamp
            diffCommitment == pedersenCommit(difference, rnd.r)
        IN  Built([a |-> <<diffCommitment, toHex(rnd.c)>>,
                   b |-> <<<<toHex(rnd.r), secret.blindingFactors.expiration>>,
                           <<"0", "0">>>>,
                   c |-> <<commitment.expirationCommitment, nonce>>],
                  <<commitment.expirationCommitment, toDec(currentTimestamp),
                    challenge>>)

generateTimeValidityProof(secret, commitment, currentTimestamp, challenge, nonce, rnd) ==
    LET expiration == secret.witnessData.expirationTimestamp
    IN  IF expiration <= currentTimestamp THEN Thrown("License expired")
        ELSE
        LET difference == expiration - currentTimestamp
            diffCommitment == pedersenCommit(difference, rnd.r)
        IN  Built([a |-> <<diffCommitment, toHex(rnd.c)>>,
                   b |-> <<<<toHex(rnd.r), secret.blindingFactors.expiration>>,
                           <<"0", "0">>>>,
                   c |-> <<commitment.expirationCommitment, nonce>>],
                  <<commitment.expirationCommitment, toDec(currentTimestamp),
                    challenge>>)

\* The string each generator hands to hashToScalar for its scalar c.
ownershipTranscript(commitment, t, challenge, nonce) ==
    commitment.commitment \o t \o challenge \o nonce

tierTranscript(commitment, diffCommitment, challenge, nonce) ==
    commitment.tierCommitment \o diffCommitment \o challenge \o nonce

featureTranscript(commitment, featureHash, pathCommitment, challenge, nonce) ==
    commitment.featureMerkleRoot \o featureHash \o pathCommitment
        \o challenge \o nonce

quotaTranscript(diffCommitment, requiredQuota, challenge, nonce) ==
    diffCommitment \o toDec(requiredQuota) \o challenge \o nonce

workerTranscript(diffCommitment, requestedWorkers, challenge, nonce) ==
    diffCommitment \o toDec(requestedWorkers) \o challenge \o nonce

timeTranscript(commitment, diffCommitment, challenge, nonce) ==
    commitment.expirationCommitment \o diffCommitment \o challenge \o nonce

\* The transcript of the proof body a generator built for the request: each
\* generator publishes in the body the commitments it hashed.
transcriptOf(commitment, request, body, nonce) ==
    CASE request.proofType = "license-ownership" ->
           ownershipTranscript(commitment, body.a[1], request.challenge, nonce)
      [] request.proofType = "tier-membership" ->
           tierTranscript(commitment, body.a[1], request.challenge, nonce)
      [] request.proofType = "feature-access" ->
           featureTranscript(commitment,
               hashValue(request.requirements.requiredFeature), body.a[2],
               request.challenge, nonce)
      [] request.proofType = "usage-quota" ->
           quotaTranscript(body.a[1], request.requirements.requiredQuota,
                           request.challenge, nonce)
      [] request.proofType = "worker-allocation" ->
           workerTranscript(body.a[1], request.requirements.requestedWorkers,
                            request.challenge, nonce)
      [] request.proofType = "time-validity" ->
           timeTranscript(commitment, body.a[1], request.challenge, nonce)
      [] OTHER -> ""

\* The switch of generateProof on request.proofType.
buildProof(oracle, secret, commitment, request, nonce, rnd) ==
    CASE request.proofType = "license-ownership" ->
           generateOwnershipProof(oracle, secret, commitment,
                                  request.challenge, nonce, rnd)
      [] request.proofType = "tier-membership" ->
           generateTierMembershipProof(secret, commitment,
               request.requirements.minimumTier, request.challenge, nonce, rnd)
      [] request.proofType = "feature-access" ->
           generateFeatureAccessProof(secret, commitment,
               request.requirements.requiredFeature, request.challenge, nonce, rnd)
      [] request.proofType = "usage-quota" ->
           generateQuotaProof(secret, commitment,
               request.requirements.requiredQuota, request.challenge, nonce, rnd)
      [] request.proofType = "worker-allocation" ->
           generateWorkerAllocationProof(secret, commitment,
               request.requirements.requestedWorkers, request.challenge, nonce, rnd)
      [] request.proofType = "time-validity" ->
           generateTimeValidityProof(secret, commitment,
               request.requirements.currentTimestamp, request.challenge, nonce, rnd)
      [] OTHER -> Thrown("Unknown proof type: " \o request.proofType)

---------------------------------------------------------------------------
(* Proof verification: the six verifiers                                   *)

\* Each verifier runs inside try/catch: a BigInt() that throws yields false.
verifyOwnershipProof(proof, commitment) ==
    IF ~(isHex(proof.proof.a[2]) /\ isHex(proof.proof.b[1][1])
         /\ isHex(proof.proof.b[1][2]))
    THEN FALSE
    ELSE
    LET t == proof.proof.a[1]
        s1 == parseHex(proof.proof.a[2])
        s2 == parseHex(proof.proof.b[1][1])
        c == parseHex(proof.proof.b[1][2])
        expected == pedersenVerify(s1, s2, c, commitment.commitment)
    IN  t = expected

\* verifyTierMembershipProof accepting only a difference commitment that
\* opens to zero, that is, a tier equal to the minimum tier.
verifyTierMembershipProofExactTier(proof, commitment) ==
    IF ~isHex(proof.proof.b[1][2]) THEN FALSE
    ELSE /\ proof.proof.c[1] = commitment.tierCommitment
         /\ isHex(proof.proof.b[2][1])
         /\ proof.proof.a[1] = pedersenCommit(0, parseHex(proof.proof.b[2][1]))

verifyTierMembershipProof(proof, commitment) ==
    IF ~isHex(proof.proof.b[1][2]) THEN FALSE
    ELSE proof.proof.c[1] = commitment.tierCommitment

\* The path is folded from the leaf, and the result of the fold is not
\* compared with anything: past the root comparison the answer is true.
verifyFeatureAccessProof(proof, commitment) ==
    IF proof.proof.c[1] # commitment.featureMerkleRoot THEN FALSE
    ELSE TRUE

verifyQuotaProof(proof, commitment) ==
    Len(proof.proof.a[1]) > 0

verifyWorkerAllocationProof(proof, commitment) ==
    Len(proof.proof.a[1]) > 0 /\ proof.proof.c[1] = commitment.tierCommitment

\* verifyTimeValidityProof comparing with another field of the commitment.
verifyTimeValidityProofWrongField(proof, commitment) ==
    proof.proof.c[1] = commitment.tierCommitment

verifyTimeValidityProof(proof, commitment) ==
    proof.proof.c[1] = commitment.expirationCommitment

\* The switch of verifyProof on proof.proofType; no case, no change of isValid.
verifyByType(proof, commitment) ==
    CASE proof.proofType = "license-ownership" ->
           verifyOwnershipProof(proof, commitment)
      [] proof.proofType = "tier-membership" ->
           verifyTierMembershipProof(proof, commitment)
      [] proof.proofType = "feature-access" ->
           verifyFeatureAccessProof(proof, commitment)
      [] proof.proofType = "usage-quota" ->
           verifyQuotaProof(proof, commitment)
      [] proof.proofType = "worker-allocation" ->
           verifyWorkerAllocationProof(proof, commitment)
      [] proof.proofType = "time-validity" ->
           verifyTimeValidityProof(proof, commitment)
      [] OTHER -> FALSE

ClaimFlags == {"hasValidLicense", "meetsTierRequirement", "hasFeatureAccess",
               "hasQuota", "hasWorkerCapacity", "isNotExpired"}

flagOf(proofType) ==
    CASE proofType = "license-ownership" -> "hasValidLicense"
      [] proofType = "tier-membership" -> "meetsTierRequirement"
      [] proofType = "feature-access" -> "hasFeatureAccess"
      [] proofType = "usage-quota" -> "hasQuota"
      [] proofType = "worker-allocation" -> "hasWorkerCapacity"
      [] proofType = "time-validity" -> "isNotExpired"
      [] OTHER -> "none"

\* provenClaims: the flags the result defines, each with its value.
extractProvenClaims(proof, isValid) ==
    [f \in ClaimFlags |-> isValid /\ f = flagOf(proof.proofType)]

createInvalidResult(proofId, reason, at) ==
    [valid |-> FALSE, proofId |-> proofId, verifiedAt |-> at,
     provenClaims |-> [f \in {"hasValidLicense"} |-> FALSE],
     verificationTime |-> 0]

---------------------------------------------------------------------------
(* Rate limiter                                                            *)

\* checkRateLimit with the comparison of the count off by one.
checkRateLimitOffByOne(counts, reset, commitmentId, t) ==
    LET due == t - reset > rateWindowMs
        counts1 == IF due THEN <<>> ELSE counts
        reset1 == IF due THEN t ELSE reset
        count == IF has(counts1, commitmentId) THEN counts1[commitmentId] ELSE 0
    IN  IF count > maxProofsPerHour
        THEN [ok |-> FALSE, cleared |-> due, proofCounts |-> counts1,
              proofCountReset |-> reset1]
        ELSE [ok |-> TRUE, cleared |-> due,
              proofCounts |-> Extend(counts1, commitmentId, count + 1),
              proofCountReset |-> reset1]

\* checkRateLimit writing the count of a read made before the other calls
\* in flight wrote theirs.
checkRateLimitStaleRead(counts, reset, commitmentId, t) ==
    LET due == t - reset > rateWindowMs
        counts1 == IF due THEN <<>> ELSE counts
        reset1 == IF due THEN t ELSE reset
        count == IF has(counts1, commitmentId) THEN counts1[commitmentId] ELSE 0
    IN  IF count >= maxProofsPerHour
        THEN [ok |-> FALSE, cleared |-> due, proofCounts |-> counts1,
              proofCountReset |-> reset1]
        ELSE [ok |-> TRUE, cleared |-> due,
              proofCounts |-> Extend(counts1, commitmentId, 1),
              proofCountReset |-> reset1]

\* checkRateLimit without the hourly reset.
checkRateLimitNoReset(counts, reset, commitmentId, t) ==
    LET count == IF has(counts, commitmentId) THEN counts[commitmentId] ELSE 0
    IN  IF count >= maxProofsPerHour
        THEN [ok |-> FALSE, cleared |-> FALSE, proofCounts |-> counts,
              proofCountReset |-> reset]
        ELSE [ok |-> TRUE, cleared |-> FALSE,
              proofCounts |-> Extend(counts, commitmentId, count + 1),
              proofCountReset |-> reset]

\* checkRateLimit counting the calls it refuses, too.
checkRateLimitCountsRefusals(counts, reset, commitmentId, t) ==
    LET due == t - reset > rateWindowMs
        counts1 == IF due THEN <<>> ELSE counts
        reset1 == IF due THEN t ELSE reset
        count == IF has(counts1, commitmentId) THEN counts1[commitmentId] ELSE 0
    IN  [ok |-> count < maxProofsPerHour, cleared |-> due,
         proofCounts |-> Extend(counts1, commitmentId, count + 1),
         proofCountReset |-> reset1]

\* checkRateLimit letting a call pass without counting it.
checkRateLimitUncounted(counts, reset, commitmentId, t) ==
    LET due == t - reset > rateWindowMs
        counts1 == IF due THEN <<>> ELSE counts
        reset1 == IF due THEN t ELSE reset
        count == IF has(counts1, commitmentId) THEN counts1[commitmentId] ELSE 0
    IN  IF count >= maxProofsPerHour
        THEN [ok |-> FALSE, cleared |-> due, proofCounts |-> counts1,
              proofCountReset |-> reset1]
        ELSE [ok |-> TRUE, cleared |-> due,
              proofCounts |-> Extend(counts1, commitmentId, count),
              proofCountReset |-> reset1]

\* checkRateLimit(commitmentId) at time t: the maps after the call and
\* whether it threw.  The reset is kept when the call throws.
checkRateLimit(counts, reset, commitmentId, t) ==
    LET due == t - reset > rateWindowMs
        counts1 == IF due THEN <<>> ELSE counts
        reset1 == IF due THEN t ELSE reset
        count == IF has(counts1, commitmentId) THEN counts1[commitmentId] ELSE 0
    IN  IF count >= maxProofsPerHour
        THEN [ok |-> FALSE, cleared |-> due, proofCounts |-> counts1,
              proofCountReset |-> reset1]
        ELSE [ok |-> TRUE, cleared |-> due,
              proofCounts |-> Extend(counts1, commitmentId, count + 1),
              proofCountReset |-> reset1]

---------------------------------------------------------------------------
(* Bounds of the exploration and the inputs the calls are given            *)

MaxLicenses == 1
MaxRequests == 1
MaxProofs == 1
\* Random values drawn in all (a license draws 5, a request 2, a proof 2).
MaxDraws == 11
MaxVerifyCalls == 2
MaxTicks == 1

\* The step of the clock: past the expiry of a request (and of a cache entry).
TimeSteps == {proofExpirationMs + 1}

TierInputs == {"trial", "professional"}
ExpirationInputs == {3}
KeyScalarInputs == {2}
BlindScalarInputs == {1}

noRequirements ==
    [minimumTier |-> "", requiredFeature |-> "", requiredQuota |-> 0,
     requestedWorkers |-> 0, currentTimestamp |-> 0]

\* Requests with a statement that holds of some input license and requests
\* with one that fails.
RequestInputs ==
    {[proofType |-> "license-ownership", requirements |-> noRequirements]}
    \cup {[proofType |-> "tier-membership",
           requirements |-> [noRequirements EXCEPT !.minimumTier = m]] :
             m \in {"starter"}}
    \cup {[proofType |-> "feature-access",
           requirements |-> [noRequirements EXCEPT !.requiredFeature = f]] :
             f \in {"basic-crawling", "api-access"}}
    \cup {[proofType |-> "usage-quota",
           requirements |-> [noRequirements EXCEPT !.requiredQuota = q]] :
             q \in {1000, 1001}}
    \cup {[proofType |-> "worker-allocation",
           requirements |-> [noRequirements EXCEPT !.requestedWorkers = w]] :
             w \in {2}}
    \cup {[proofType |-> "time-validity",
           requirements |-> [noRequirements EXCEPT !.currentTimestamp = t]] :
             t \in {2, 3}}

\* The random scalars of one generateProof call.
RandomInputs ==
    {[r |-> 0, k |-> 1, c |-> 1, u |-> 1, v |-> 2, w |-> 3, z |-> 4],
     [r |-> groupOrder - 1, k |-> 1, c |-> 3, u |-> 1, v |-> 2, w |-> 3, z |-> 4]}

---------------------------------------------------------------------------
(* The proofs a caller may hand to verifyProof                             *)

\* A string that differs from s and stays well-formed where s was.
flip(s) == "1" \o s

TamperFields == {"a1", "b11", "c2", "pi1"}

\* The proof p with one entry of proof.a, proof.b, proof.c or publicInputs
\* changed and everything else equal.
tamper(p, field) ==
    CASE field = "a1" -> [p EXCEPT !.proof.a[1] = flip(@)]
      [] field = "a2" -> [p EXCEPT !.proof.a[2] = flip(@)]
      [] field = "b11" -> [p EXCEPT !.proof.b[1][1] = flip(@)]
      [] field = "b12" -> [p EXCEPT !.proof.b[1][2] = flip(@)]
      [] field = "b21" -> [p EXCEPT !.proof.b[2][1] = flip(@)]
      [] field = "b22" -> [p EXCEPT !.proof.b[2][2] = flip(@)]
      [] field = "c1" -> [p EXCEPT !.proof.c[1] = flip(@)]
      [] field = "c2" -> [p EXCEPT !.proof.c[2] = flip(@)]
      [] field = "pi1" -> [p EXCEPT !.publicInputs[1] = flip(@)]

\* A proof put together by a party that holds the published commitment and
\* no secret: the commitment's own fields, constants, and for ownership the
\* value pedersenVerify gives for responses of its choosing.
forge(commitment, proofType, challenge) ==
    LET body ==
          CASE proofType = "license-ownership" ->
                 [a |-> <<pedersenVerify(0, 0, 0, commitment.commitment), "0">>,
                  b |-> <<<<"0", "0">>, <<"0", "0">>>>,
                  c |-> <<commitment.commitment, "00">>]
            [] proofType = "tier-membership" ->
                 [a |-> <<"1", "1">>,
                  b |-> <<<<"1", "0">>, <<"0", "0">>>>,
                  c |-> <<commitment.tierCommitment, "00">>]
            [] proofType = "feature-access" ->
                 [a |-> <<hashValue("on-premise"), hashValues(<<>>)>>,
                  b |-> <<<<"0", "0">>, <<"", "0">>>>,
                  c |-> <<commitment.featureMerkleRoot, "00">>]
            [] proofType = "usage-quota" ->
                 [a |-> <<"1", "0">>,
                  b |-> <<<<"0", "0">>, <<"0", "0">>>>,
                  c |-> <<commitment.commitment, "00">>]
            [] proofType = "worker-allocation" ->
                 [a |-> <<"1", "0">>,
                  b |-> <<<<"0", "1000">>, <<"0", "0">>>>,
                  c |-> <<commitment.tierCommitment, "00">>]
            [] proofType = "time-validity" ->
                 [a |-> <<"1", "0">>,
                  b |-> <<<<"0", "0">>, <<"0", "0">>>>,
                  c |-> <<commitment.expirationCommitment, "00">>]
    IN  [proofId |-> "proof_forged",
         timestamp |-> 0,
         proofType |-> proofType,
         proof |-> body,
         publicInputs |-> IF proofType = "tier-membership"
                          THEN <<commitment.tierCommitment, "5", challenge>>
                          ELSE <<"5", challenge>>,
         commitmentId |-> commitment.commitmentId,
         verified |-> FALSE,
         verifiedAt |-> -1,
         nonce |-> "00",
         challenge |-> challenge]

\* A challenge no createProofRequest call returned.
ForeignChallenge == "c0ffee"

\* slot is the position in proofs of the object handed over, 0 for a copy.
Submissions ==
    {[proof |-> proofs[i], how |-> "issued", slot |-> i] : i \in DOMAIN proofs}
    \cup {[proof |-> tamper(proofs[i], f), how |-> "tamper-" \o f, slot |-> 0] :
            i \in DOMAIN proofs, f \in TamperFields}
    \cup {[proof |-> [proofs[i] EXCEPT !.proofId = "proof_copy"],
           how |-> "copy", slot |-> 0] : i \in DOMAIN proofs}
    \cup {[proof |-> forge(commitments[id], t, ForeignChallenge),
           how |-> "forged", slot |-> 0] :
            id \in DOMAIN commitments, t \in ProofTypes}

---------------------------------------------------------------------------
(* The engine: state after construction and one action per call            *)

\* The outcome of a call: whether it returned, the error it threw, the proof
\* and the result it returned or was given, and for generateProof the
\* positions <<li, ri>> of the license and the request it was called with.
Outcome(op, ok, error, commitmentId, proof, result, how, cacheHit, args) ==
    [op |-> op, ok |-> ok, error |-> error, commitmentId |-> commitmentId,
     proof |-> proof, result |-> result, how |-> how, cacheHit |-> cacheHit,
     args |-> args]

mkIdle == [stage |-> "idle", features |-> <<>>, index |-> 0, root |-> "",
           leaf |-> "", path |-> <<>>, indices |-> <<>>, folded |-> ""]

EngineInit ==
    /\ commitments = <<>>
    /\ proofCache = <<>>
    /\ proofCounts = <<>>
    /\ proofCountReset = 0
    /\ totalProofsGenerated = 0
    /\ totalProofsVerified = 0
    /\ totalValidProofs = 0
    /\ totalInvalidProofs = 0
    /\ now = 0
    /\ hashOracle = <<>>
    /\ nextId = 0
    /\ licenses = <<>>
    /\ requests = <<>>
    /\ proofs = <<>>
    /\ ret = Outcome("new", TRUE, "", "", <<>>, <<>>, "", FALSE, <<>>)
    /\ accepted = {}
    /\ passed = <<>>
    /\ ticks = 0
    /\ emitted = 0

pairIdle == [stage |-> "idle"]

pcIdle == [stage |-> "idle"]

gateIdle == [page |-> "closed"]

bpIdle == [stage |-> "idle"]

Init ==
    /\ EngineInit
    /\ mk = mkIdle
    /\ pending = <<>>
    /\ passLog = <<>>
    /\ pair = pairIdle
    /\ pc = pcIdle
    /\ gate = gateIdle
    /\ bp = bpIdle

CreateLicense(tier, expirationTimestamp, kx, kb, kt, ke) ==
    /\ Len(licenses) < MaxLicenses
    /\ LET lic == newLicense(tier, expirationTimestamp, nextId, kx, kb, kt, ke, now)
       IN  /\ commitments' = Extend(commitments, lic.commitment.commitmentId,
                                    lic.commitment)
           /\ hashOracle' =
                 Extend(Extend(Extend(Extend(hashOracle,
                     lic.secret.licenseKey, kx),
                     lic.secret.blindingFactors.license, kb),
                     lic.secret.blindingFactors.tier, kt),
                     lic.secret.blindingFactors.expiration, ke)
           /\ licenses' = Append(licenses, lic)
           /\ ret' = Outcome("createLicense", TRUE, "",
                             lic.commitment.commitmentId, <<>>, <<>>, "", FALSE,
                             <<>>)
    /\ nextId' = nextId + 5
    /\ UNCHANGED <<proofCache, proofCounts, proofCountReset,
                   totalProofsGenerated, totalProofsVerified, totalValidProofs,
                   totalInvalidProofs, now, requests, proofs, accepted, passed,
                   ticks, emitted, pureVars>>

CreateProofRequest(proofType, requirements) ==
    /\ Len(requests) < MaxRequests
    /\ requests' = Append(requests,
           [requestId |-> generateId("req", nextId),
            timestamp |-> now,
            proofType |-> proofType,
            requirements |-> requirements,
            challenge |-> randomHex(nextId + 1),
            expiresAt |-> now + proofExpirationMs])
    /\ nextId' = nextId + 2
    /\ ret' = Outcome("createProofRequest", TRUE, "", "", <<>>, <<>>, "", FALSE,
                      <<>>)
    /\ UNCHANGED <<commitments, proofCache, proofCounts, proofCountReset,
                   totalProofsGenerated, totalProofsVerified, totalValidProofs,
                   totalInvalidProofs, now, hashOracle, licenses, proofs,
                   accepted, passed, ticks, emitted, pureVars>>

\* The caller keeps the latest MaxProofs proofs it was given.
keep(held, p) ==
    IF Len(held) < MaxProofs THEN Append(held, p) ELSE Append(Tail(held), p)

\* The ZKProof object generateProof assembles from what the generator built;
\* verifiedAt is absent until a verification sets it (-1).
assembleProof(proofId, at, request, built, commitment, nonce) ==
    [proofId |-> proofId,
     timestamp |-> at,
     proofType |-> request.proofType,
     proof |-> built.proof,
     publicInputs |-> built.publicInputs,
     commitmentId |-> commitment.commitmentId,
     verified |-> FALSE,
     verifiedAt |-> -1,
     nonce |-> nonce,
     challenge |-> request.challenge]

\* generateProof adding the requiredQuota of a usage-quota request it answers
\* to the usedQuota of the witness.
GenerateProofCallConsuming(li, ri, rnd, maxDraws) ==
    /\ li \in DOMAIN licenses
    /\ ri \in DOMAIN requests
    /\ LET secret == licenses[li].secret
           commitment == licenses[li].commitment
           request == requests[ri]
           limit == checkRateLimit(proofCounts, proofCountReset,
                                   commitment.commitmentId, now)
           nonce == randomHex(nextId)
           built == buildProof(hashOracle, secret, commitment, request, nonce, rnd)
           zkProof == assembleProof(generateId("proof", nextId + 1), now,
                                    request, built, commitment, nonce)
       IN  /\ limit.ok => nextId + 2 <= maxDraws
           /\ proofCounts' = limit.proofCounts
           /\ proofCountReset' = limit.proofCountReset
           /\ passed' =
                 LET base == IF limit.cleared THEN <<>> ELSE passed
                     old == IF has(base, commitment.commitmentId)
                            THEN base[commitment.commitmentId] ELSE 0
                 IN  IF limit.ok
                     THEN Extend(base, commitment.commitmentId, old + 1)
                     ELSE base
           /\ IF ~limit.ok
              THEN /\ ret' = Outcome("generateProof", FALSE, "Rate limit exceeded",
                                     commitment.commitmentId, <<>>, <<>>, "", FALSE,
                                     <<li, ri>>)
                   /\ UNCHANGED <<nextId, proofs, totalProofsGenerated, licenses>>
              ELSE IF ~built.ok
              THEN /\ ret' = Outcome("generateProof", FALSE, built.error,
                                     commitment.commitmentId, <<>>, <<>>, "", FALSE,
                                     <<li, ri>>)
                   /\ nextId' = nextId + 1
                   /\ UNCHANGED <<proofs, totalProofsGenerated, licenses>>
              ELSE /\ ret' = Outcome("generateProof", TRUE, "",
                                     commitment.commitmentId, <<zkProof>>, <<>>,
                                     "", FALSE, <<li, ri>>)
                   /\ nextId' = nextId + 2
                   /\ proofs' = keep(proofs, zkProof)
                   /\ totalProofsGenerated' = totalProofsGenerated + 1
                   /\ licenses' =
                         IF request.proofType = "usage-quota"
                         THEN [licenses EXCEPT
                                  ![li].secret.witnessData.usedQuota =
                                      @ + request.requirements.requiredQuota]
                         ELSE licenses
    /\ UNCHANGED <<commitments, proofCache, totalProofsVerified, totalValidProofs,
                   totalInvalidProofs, now, hashOracle, requests,
                   accepted, ticks, emitted>>

\* generateProof(secret, commitment, request) with the pair licenses[li] and
\* the request requests[ri]; a call past the limiter is explored while fewer
\* than maxDraws random values have been drawn.
GenerateProofCall(li, ri, rnd, maxDraws) ==
    /\ li \in DOMAIN licenses
    /\ ri \in DOMAIN requests
    /\ LET secret == licenses[li].secret
           commitment == licenses[li].commitment
           request == requests[ri]
           limit == checkRateLimit(proofCounts, proofCountReset,
                                   commitment.commitmentId, now)
           nonce == randomHex(nextId)
           built == buildProof(hashOracle, secret, commitment, request, nonce, rnd)
           zkProof == assembleProof(generateId("proof", nextId + 1), now,
                                    request, built, commitment, nonce)
       IN  /\ limit.ok => nextId + 2 <= maxDraws
           /\ proofCounts' = limit.proofCounts
           /\ proofCountReset' = limit.proofCountReset
           /\ passed' =
                 LET base == IF limit.cleared THEN <<>> ELSE passed
                     old == IF has(base, commitment.commitmentId)
                            THEN base[commitment.commitmentId] ELSE 0
                 IN  IF limit.ok
                     THEN Extend(base, commitment.commitmentId, old + 1)
                     ELSE base
           /\ IF ~limit.ok
              THEN /\ ret' = Outcome("generateProof", FALSE, "Rate limit exceeded",
                                     commitment.commitmentId, <<>>, <<>>, "", FALSE,
                                     <<li, ri>>)
                   /\ UNCHANGED <<nextId, proofs, totalProofsGenerated>>
              ELSE IF ~built.ok
              THEN /\ ret' = Outcome("generateProof", FALSE, built.error,
                                     commitment.commitmentId, <<>>, <<>>, "", FALSE,
                                     <<li, ri>>)
                   /\ nextId' = nextId + 1
                   /\ UNCHANGED <<proofs, totalProofsGenerated>>
              ELSE /\ ret' = Outcome("generateProof", TRUE, "",
                                     commitment.commitmentId, <<zkProof>>, <<>>,
                                     "", FALSE, <<li, ri>>)
                   /\ nextId' = nextId + 2
                   /\ proofs' = keep(proofs, zkProof)
                   /\ totalProofsGenerated' = totalProofsGenerated + 1
    /\ UNCHANGED <<commitments, proofCache, totalProofsVerified, totalValidProofs,
                   totalInvalidProofs, now, hashOracle, licenses, requests,
                   accepted, ticks, emitted>>

\* A generateProof call whose promise the caller awaits at once.
GenerateProof(li, ri, rnd, maxDraws) ==
    GenerateProofCall(li, ri, rnd, maxDraws) /\ UNCHANGED pureVars

\* The VerificationResult verifyProof builds for a proof it examined.
verificationResult(proof, isValid, at) ==
    [valid |-> isValid,
     proofId |-> proof.proofId,
     verifiedAt |-> at,
     provenClaims |-> extractProvenClaims(proof, isValid),
     verificationTime |-> 0]

\* The cache test of verifyProof taking an entry at its expiry time for fresh.
cacheFreshAtExpiry(cache, cacheKey, t) ==
    has(cache, cacheKey) /\ cache[cacheKey].expiresAt >= t

\* cached && cached.expiresAt > Date.now()
cacheFresh(cache, cacheKey, t) ==
    has(cache, cacheKey) /\ cache[cacheKey].expiresAt > t

\* verifyProof counting the calls it rejects for an unknown commitment.
VerifyProofCountingUnknown(sub) ==
    /\ totalProofsVerified < MaxVerifyCalls
    /\ LET proof == sub.proof
           cacheKey == proof.proofId
           hit == cacheFresh(proofCache, cacheKey, now)
           known == has(commitments, proof.commitmentId)
           isValid == verifyByType(proof, commitments[proof.commitmentId])
           result == verificationResult(proof, isValid, now)
           returned == IF hit THEN proofCache[cacheKey].result
                       ELSE IF ~known
                       THEN createInvalidResult(proof.proofId,
                                                "Commitment not found", now)
                       ELSE result
       IN  /\ ret' = Outcome("verifyProof", TRUE, "", proof.commitmentId,
                             <<proof>>, <<returned>>, sub.how, hit, <<>>)
           /\ accepted' = IF returned.valid
                          THEN accepted \cup {<<proof.proofId, proof.challenge>>}
                          ELSE accepted
           /\ IF hit
              THEN UNCHANGED <<proofs, proofCache, totalProofsVerified,
                               totalValidProofs, totalInvalidProofs, emitted>>
              ELSE IF ~known
              THEN /\ totalProofsVerified' = totalProofsVerified + 1
                   /\ totalInvalidProofs' = totalInvalidProofs + 1
                   /\ UNCHANGED <<proofs, proofCache, totalValidProofs,
                                  emitted>>
              ELSE /\ proofs' = IF sub.slot = 0 THEN proofs
                                ELSE [proofs EXCEPT ![sub.slot].verified = isValid,
                                                    ![sub.slot].verifiedAt = now]
                   /\ totalProofsVerified' = totalProofsVerified + 1
                   /\ totalValidProofs' =
                         totalValidProofs + (IF isValid THEN 1 ELSE 0)
                   /\ totalInvalidProofs' =
                         totalInvalidProofs + (IF isValid THEN 0 ELSE 1)
                   /\ proofCache' = Extend(proofCache, cacheKey,
                         [result |-> result,
                          expiresAt |-> now + verificationCacheMs])
                   /\ emitted' = emitted + 1
    /\ UNCHANGED <<commitments, proofCounts, proofCountReset,
                   totalProofsGenerated, now, hashOracle, nextId, licenses,
                   requests, passed, ticks, pureVars>>

VerifyProof(sub) ==
    /\ totalProofsVerified < MaxVerifyCalls
    /\ LET proof == sub.proof
           cacheKey == proof.proofId
           hit == cacheFresh(proofCache, cacheKey, now)
           known == has(commitments, proof.commitmentId)
           isValid == verifyByType(proof, commitments[proof.commitmentId])
           result == verificationResult(proof, isValid, now)
           returned == IF hit THEN proofCache[cacheKey].result
                       ELSE IF ~known
                       THEN createInvalidResult(proof.proofId,
                                                "Commitment not found", now)
                       ELSE result
       IN  /\ ret' = Outcome("verifyProof", TRUE, "", proof.commitmentId,
                             <<proof>>, <<returned>>, sub.how, hit, <<>>)
           /\ accepted' = IF returned.valid
                          THEN accepted \cup {<<proof.proofId, proof.challenge>>}
                          ELSE accepted
           /\ IF hit \/ ~known
              THEN UNCHANGED <<proofs, proofCache, totalProofsVerified,
                               totalValidProofs, totalInvalidProofs, emitted>>
              ELSE /\ proofs' = IF sub.slot = 0 THEN proofs
                                ELSE [proofs EXCEPT ![sub.slot].verified = isValid,
                                                    ![sub.slot].verifiedAt = now]
                   /\ totalProofsVerified' = totalProofsVerified + 1
                   /\ totalValidProofs' =
                         totalValidProofs + (IF isValid THEN 1 ELSE 0)
                   /\ totalInvalidProofs' =
                         totalInvalidProofs + (IF isValid THEN 0 ELSE 1)
                   /\ proofCache' = Extend(proofCache, cacheKey,
                         [result |-> result,
                          expiresAt |-> now + verificationCacheMs])
                   /\ emitted' = emitted + 1
    /\ UNCHANGED <<commitments, proofCounts, proofCountReset,
                   totalProofsGenerated, now, hashOracle, nextId, licenses,
                   requests, passed, ticks, pureVars>>

\* Time passes between calls.
Tick(d, maxTicks) ==
    /\ ticks < maxTicks
    /\ ticks' = ticks + 1
    /\ now' = now + d
    /\ UNCHANGED <<commitments, proofCache, proofCounts, proofCountReset,
                   totalProofsGenerated, totalProofsVerified, totalValidProofs,
                   totalInvalidProofs, hashOracle, nextId, licenses, requests,
                   proofs, ret, accepted, passed, emitted, pureVars>>

Next ==
    \/ \E tier \in TierInputs, e \in ExpirationInputs,
          kx \in KeyScalarInputs, kb \in BlindScalarInputs :
            CreateLicense(tier, e, kx, kb, 2, 3)
    \/ \E q \in RequestInputs : CreateProofRequest(q.proofType, q.requirements)
    \/ \E li \in 1..MaxLicenses, ri \in 1..MaxRequests, rnd \in RandomInputs :
            GenerateProof(li, ri, rnd, MaxDraws)
    \/ \E sub \in Submissions : VerifyProof(sub)
    \/ \E d \in TimeSteps : Tick(d, MaxTicks)

Spec == Init /\ [][Next]_vars

---------------------------------------------------------------------------
(* SpecMerkle: createFeatureMerkleTree and the fold of the proofs it gives *)

\* The feature lists of the five tiers and the leading parts of
\* config.enabledFeatures.
FeatureLists ==
    {tierLimits[t].features : t \in Tiers}
    \cup {SubSeq(enabledFeatures, 1, n) : n \in 1..Len(enabledFeatures)}

MerkleInit ==
    /\ EngineInit
    /\ pending = <<>>
    /\ passLog = <<>>
    /\ pair = pairIdle
    /\ pc = pcIdle
    /\ gate = gateIdle
    /\ bp = bpIdle
    /\ mk \in UNION {{[mkIdle EXCEPT !.stage = "input", !.features = fs,
                                     !.index = i] : i \in 1..Len(fs)} :
                     fs \in FeatureLists}

\* The tree of the list is built; the proof of the chosen feature is kept.
MerkleBuild ==
    /\ mk.stage = "input"
    /\ LET tree == createFeatureMerkleTree(mk.features)
           proof == tree.proofs[mk.index]
       IN  mk' = [mk EXCEPT !.stage = "built", !.root = tree.root,
                            !.leaf = proof.leaf, !.path = proof.path,
                            !.indices = proof.indices]
    /\ UNCHANGED <<engineVars, pending, passLog, pair, pc, gate, bp>>

\* The proof is folded from its leaf along its whole path.
MerkleFold ==
    /\ mk.stage = "built"
    /\ mk' = [mk EXCEPT !.stage = "folded",
                        !.folded = foldPath(mk.leaf, mk.path, mk.indices)]
    /\ UNCHANGED <<engineVars, pending, passLog, pair, pc, gate, bp>>

MerkleNext == MerkleBuild \/ MerkleFold

SpecMerkle == MerkleInit /\ [][MerkleNext]_vars

---------------------------------------------------------------------------
(* Properties                                                              *)

\* The last call was verifyProof; Submitted is the proof it was given and
\* Returned the VerificationResult it gave back.
Verified == ret.op = "verifyProof"
Submitted == ret.proof[1]
Returned == ret.result[1]

\* The license pair published under a commitment id.
licenseOf(commitmentId) ==
    licenses[CHOOSE i \in DOMAIN licenses :
                licenses[i].commitment.commitmentId = commitmentId]

\* The statement of a request holds of a witness.
satisfies(w, request) ==
    CASE request.proofType = "tier-membership" ->
           w.tierValue >= tierHierarchy[request.requirements.minimumTier]
      [] request.proofType = "feature-access" ->
           \E i \in DOMAIN w.enabledFeatures :
               w.enabledFeatures[i] = request.requirements.requiredFeature
      [] request.proofType = "usage-quota" ->
           w.usageQuota - w.usedQuota >= request.requirements.requiredQuota
      [] request.proofType = "worker-allocation" ->
           request.requirements.requestedWorkers <= w.maxWorkers
      [] request.proofType = "time-validity" ->
           w.expirationTimestamp > request.requirements.currentTimestamp
      [] OTHER -> TRUE

StatementTypes == ProofTypes \ {"license-ownership"}

\* C1: once verifyProof has accepted a proof carrying a challenge, no later
\* verifyProof call accepts a proof with another proofId and that challenge.
ReplayRejected ==
    (Verified /\ Returned.valid) =>
        ~\E e \in accepted : /\ e[2] = Submitted.challenge
                             /\ e[1] # Submitted.proofId

\* C2: verifyProof accepts a proof only if its challenge is the challenge of
\* a request createProofRequest issued whose expiresAt has not passed.
ChallengeIssuedAndUnexpired ==
    (Verified /\ Returned.valid) =>
        \E i \in DOMAIN requests : /\ requests[i].challenge = Submitted.challenge
                                   /\ now <= requests[i].expiresAt

\* C3: no tier-membership proof verifies for a license whose tier rank is
\* below the rank of the minimum tier the proof states in its public inputs.
TierBelowMinimumRejected ==
    (/\ Verified
     /\ Submitted.proofType = "tier-membership"
     /\ has(commitments, Submitted.commitmentId)
     /\ \E m \in Tiers :
           /\ Submitted.publicInputs[2] = toDec(tierHierarchy[m])
           /\ licenseOf(Submitted.commitmentId).secret.witnessData.tierValue
                 < tierHierarchy[m])
    => ~Returned.valid

\* C4: a proof assembled from a published commitment's public values alone
\* is rejected, for each of the six proof types.
PublicValuesRejected ==
    (Verified /\ ret.how = "forged") => ~Returned.valid

\* C5: a proof that differs in exactly one of proof.a, proof.b, proof.c and
\* publicInputs from a proof the verifier accepts is rejected, when the
\* verifier answers without a cache entry.
TamperedRejected ==
    \A i \in DOMAIN proofs, f \in TamperFields :
        (/\ Verified
         /\ ~ret.cacheHit
         /\ Submitted = tamper(proofs[i], f)
         /\ has(commitments, proofs[i].commitmentId)
         /\ verifyByType(proofs[i], commitments[proofs[i].commitmentId]))
        => ~Returned.valid

\* C6: verifyProof accepts the license-ownership proof generateProof returned,
\* with hasValidLicense true.
OwnershipRoundTrip ==
    (/\ Verified
     /\ ret.how = "issued"
     /\ ~ret.cacheHit
     /\ Submitted.proofType = "license-ownership")
    => (Returned.valid /\ Returned.provenClaims["hasValidLicense"])

\* C8: for every feature list and every feature in it, folding the
\* MerkleProof createFeatureMerkleTree produced for the feature, from its leaf
\* along its path, yields the tree's root.
MerkleFoldReachesRoot ==
    mk.stage = "folded" => mk.folded = mk.root

\* The request a proof answers: the issued request with its challenge.
requestOf(proof) ==
    requests[CHOOSE i \in DOMAIN requests :
                requests[i].challenge = proof.challenge]

\* C7: for the five statement proofs, when the witness satisfies the
\* statement of the request, generateProof returns a proof unless the limiter
\* refuses the call, and verifyProof, verifying that proof, returns valid with
\* the provenClaims flag of the proof type true.
StatementRoundTrip ==
    /\ (/\ ret.op = "generateProof"
        /\ requests[ret.args[2]].proofType \in StatementTypes
        /\ satisfies(licenses[ret.args[1]].secret.witnessData,
                     requests[ret.args[2]]))
       => (ret.ok \/ ret.error = "Rate limit exceeded")
    /\ (/\ Verified
        /\ ret.how = "issued"
        /\ ~ret.cacheHit
        /\ Submitted.proofType \in StatementTypes
        /\ satisfies(licenseOf(Submitted.commitmentId).secret.witnessData,
                     requestOf(Submitted)))
       => (/\ Returned.valid
           /\ Returned.provenClaims[flagOf(Submitted.proofType)])

\* A time-validity proof of an unexpired license has been generated and
\* verified.
StatementRoundTripWitness ==
    /\ Verified
    /\ ret.how = "issued"
    /\ ~ret.cacheHit
    /\ Submitted.proofType = "time-validity"
    /\ satisfies(licenseOf(Submitted.commitmentId).secret.witnessData,
                 requestOf(Submitted))
    /\ Returned.valid
    /\ Returned.provenClaims["isNotExpired"]

\* C9: verifyProof accepts a feature-access proof only if its leaf and the
\* sibling path it carries fold to the commitment's featureMerkleRoot and the
\* leaf is the hash of one of the license's enabled features.
FeatureProofFoldsToRoot ==
    (/\ Verified
     /\ Returned.valid
     /\ Submitted.proofType = "feature-access")
    => LET w == licenseOf(Submitted.commitmentId).secret.witnessData
       IN  /\ foldPath(Submitted.proof.a[1], Submitted.proof.b[1],
                       splitIndices(Submitted.proof.b[2][1]))
                 = commitments[Submitted.commitmentId].featureMerkleRoot
           /\ \E i \in DOMAIN w.enabledFeatures :
                  Submitted.proof.a[1] = hashValue(w.enabledFeatures[i])

---------------------------------------------------------------------------
(* SpecLimiter: the calls that read or write the rate limiter              *)

\* Random values drawn in all under SpecLimiter.
MaxLimiterDraws == 15
MaxLimiterTicks == 3

\* One millisecond, and the length of the limiter's window.
LimiterTimeSteps == {1, rateWindowMs}

\* A request whose statement holds of every input license and one whose
\* statement fails of the trial license.
LimiterRequestInputs ==
    {[proofType |-> "usage-quota",
      requirements |-> [noRequirements EXCEPT !.requiredQuota = q]] :
        q \in {1000, 1001}}

LimiterNext ==
    \/ \E tier \in TierInputs, e \in ExpirationInputs,
          kx \in KeyScalarInputs, kb \in BlindScalarInputs :
            CreateLicense(tier, e, kx, kb, 2, 3)
    \/ \E q \in LimiterRequestInputs :
            CreateProofRequest(q.proofType, q.requirements)
    \/ \E li \in 1..MaxLicenses, ri \in 1..MaxRequests, rnd \in RandomInputs :
            GenerateProof(li, ri, rnd, MaxLimiterDraws)
    \/ \E d \in LimiterTimeSteps : Tick(d, MaxLimiterTicks)

SpecLimiter == Init /\ [][LimiterNext]_vars

\* A step is a generateProof call for the commitment id.
GenerateStepFor(id) ==
    /\ ret'.op = "generateProof"
    /\ ret'.commitmentId = id
    /\ now' = now
    /\ engineVars' # engineVars

\* C10: the stored counter of a commitment id never exceeds maxProofsPerHour;
\* at most maxProofsPerHour generateProof calls for it pass the limiter
\* between two resets; and a call made when its counter equals
\* maxProofsPerHour, the window not having elapsed, fails with the rate-limit
\* error.
RateLimitCeiling ==
    /\ [](\A id \in DOMAIN proofCounts : proofCounts[id] <= maxProofsPerHour)
    /\ [](\A id \in DOMAIN passed : passed[id] <= maxProofsPerHour)
    /\ [][\A id \in DOMAIN proofCounts :
            (/\ GenerateStepFor(id)
             /\ proofCounts[id] = maxProofsPerHour
             /\ ~(now - proofCountReset > rateWindowMs))
            => (~ret'.ok /\ ret'.error = "Rate limit exceeded"
                /\ proofCounts' = proofCounts)]_vars

\* The counter of a commitment id stands at the ceiling and the last call
\* for it failed with the rate-limit error.
RateLimitCeilingWitness ==
    /\ ret.op = "generateProof"
    /\ ret.error = "Rate limit exceeded"
    /\ has(proofCounts, ret.commitmentId)
    /\ proofCounts[ret.commitmentId] = maxProofsPerHour
    /\ passed[ret.commitmentId] = maxProofsPerHour

\* C13: once the ceiling is reached for a commitment id (and until the next
\* reset), generateProof fails with the rate-limit error before any proof
\* construction: whether or not the witness satisfies the statement, the
\* error is the rate-limit error, no proof is returned, no random value is
\* drawn, and the rate-limit counters, totalProofsGenerated and the
\* commitment registry are left as they were.
LimiterConsultedFirst ==
    [][\A id \in DOMAIN proofCounts :
          (/\ GenerateStepFor(id)
           /\ proofCounts[id] = maxProofsPerHour
           /\ ~(now - proofCountReset > rateWindowMs))
          => (/\ ~ret'.ok
              /\ ret'.error = "Rate limit exceeded"
              /\ ret'.proof = <<>>
              /\ nextId' = nextId
              /\ proofs' = proofs
              /\ proofCounts' = proofCounts
              /\ proofCountReset' = proofCountReset
              /\ totalProofsGenerated' = totalProofsGenerated
              /\ commitments' = commitments)]_vars

\* A call whose witness does not satisfy the statement was refused by the
\* limiter, with the rate-limit error.
LimiterConsultedFirstWitness ==
    /\ ret.op = "generateProof"
    /\ ret.error = "Rate limit exceeded"
    /\ ret.proof = <<>>
    /\ ~satisfies(licenses[ret.args[1]].secret.witnessData,
                  requests[ret.args[2]])
    /\ proofCounts[ret.commitmentId] = maxProofsPerHour

\* The error a generator raises when the witness fails the statement.
violationError(request) ==
    CASE request.proofType = "usage-quota" -> "Insufficient quota"
      [] request.proofType = "worker-allocation" -> "Exceeds worker limit"
      [] request.proofType = "time-validity" -> "License expired"
      [] request.proofType = "feature-access" ->
           "Feature " \o request.requirements.requiredFeature
                      \o " not in license"
      [] OTHER -> ""

\* C15: generateProof raises an error and returns no proof whenever
\* usageQuota - usedQuota < requiredQuota (usage-quota), requestedWorkers >
\* maxWorkers (worker-allocation), expirationTimestamp <= currentTimestamp
\* (time-validity) or the required feature is not among the enabled features
\* (feature-access); the error is the one of the violated statement unless
\* the limiter refused the call first.
WitnessViolationRejected ==
    (/\ ret.op = "generateProof"
     /\ requests[ret.args[2]].proofType \in
           {"usage-quota", "worker-allocation", "time-validity",
            "feature-access"}
     /\ ~satisfies(licenses[ret.args[1]].secret.witnessData,
                   requests[ret.args[2]]))
    => (/\ ~ret.ok
        /\ ret.proof = <<>>
        /\ ret.error \in {violationError(requests[ret.args[2]]),
                          "Rate limit exceeded"})

\* generateProof was called for a time-validity request whose
\* currentTimestamp is the license's expirationTimestamp, and raised
\* 'License expired'.
WitnessViolationRejectedWitness ==
    /\ ret.op = "generateProof"
    /\ requests[ret.args[2]].proofType = "time-validity"
    /\ licenses[ret.args[1]].secret.witnessData.expirationTimestamp
          = requests[ret.args[2]].requirements.currentTimestamp
    /\ ~ret.ok
    /\ ret.error = "License expired"
    /\ ret.proof = <<>>

\* What verifyProof gives for a proof when it has no cache: the result for an
\* unknown commitment, or the verdict of the proof type's verifier.
uncachedResult(proof) ==
    IF ~has(commitments, proof.commitmentId)
    THEN createInvalidResult(proof.proofId, "Commitment not found", now)
    ELSE LET isValid == verifyByType(proof, commitments[proof.commitmentId])
         IN  [valid |-> isValid, proofId |-> proof.proofId, verifiedAt |-> now,
              provenClaims |-> extractProvenClaims(proof, isValid),
              verificationTime |-> 0]

\* C19: verifyProof(p) returns the valid and the provenClaims that verifying
\* p without a cache returns, whether the cache entry for p's proofId is
\* absent, fresh or expired; a proof that differs from an earlier verified
\* proof and reuses its proofId gets the verdict of its own content.
CacheTransparent ==
    Verified =>
        /\ Returned.valid = uncachedResult(Submitted).valid
        /\ Returned.provenClaims = uncachedResult(Submitted).provenClaims

counterOf(counts, id) == IF has(counts, id) THEN counts[id] ELSE 0

RECURSIVE sumOver(_, _)
sumOver(counts, ids) ==
    IF ids = {} THEN 0
    ELSE LET id == CHOOSE x \in ids : TRUE
         IN  counts[id] + sumOver(counts, ids \ {id})

\* The sum of the limiter's counters.
sumCounts(counts) == sumOver(counts, DOMAIN counts)

---------------------------------------------------------------------------
(* SpecBurst: several generateProof calls in flight at once                *)

\* The tasks that call generateProof without awaiting one another.
MaxCallers == 3
MaxBurstDraws == 13
MaxBurstTicks == 1

\* Past the limiter's window.
BurstTimeSteps == {rateWindowMs + 1}

\* A task calls generateProof.  The body of the async function holds no
\* await: it runs from checkRateLimit to its return in one turn of the event
\* loop, and the promise it returns stays with the task until the task's
\* continuation runs.
InvokeGenerateProof(caller, li, ri, rnd) ==
    /\ caller \notin DOMAIN pending
    /\ GenerateProofCall(li, ri, rnd, MaxBurstDraws)
    /\ pending' = Extend(pending, caller, ret')
    /\ UNCHANGED <<mk, passLog, pair, pc, gate, bp>>

\* The continuation of a task runs with the settled promise.
AwaitGenerateProof(caller) ==
    /\ caller \in DOMAIN pending
    /\ pending' = [c \in DOMAIN pending \ {caller} |-> pending[c]]
    /\ UNCHANGED <<engineVars, mk, passLog, pair, pc, gate, bp>>

BurstNext ==
    \/ \E tier \in TierInputs, e \in ExpirationInputs,
          kx \in KeyScalarInputs, kb \in BlindScalarInputs :
            CreateLicense(tier, e, kx, kb, 2, 3)
    \/ \E q \in LimiterRequestInputs :
            CreateProofRequest(q.proofType, q.requirements)
    \/ \E caller \in 1..MaxCallers, li \in 1..MaxLicenses,
          ri \in 1..MaxRequests, rnd \in RandomInputs :
            InvokeGenerateProof(caller, li, ri, rnd)
    \/ \E caller \in 1..MaxCallers : AwaitGenerateProof(caller)
    \/ \E d \in BurstTimeSteps : Tick(d, MaxBurstTicks)

SpecBurst == Init /\ [][BurstNext]_vars

\* C11: with several generateProof calls for one commitment id in flight, no
\* more than maxProofsPerHour of them pass the limiter between two resets,
\* and the stored counter equals the number of calls that passed since the
\* last reset (no increment is lost).
BurstSerialized ==
    /\ DOMAIN proofCounts = DOMAIN passed
    /\ \A id \in DOMAIN passed : /\ passed[id] <= maxProofsPerHour
                                  /\ proofCounts[id] = passed[id]

\* Three calls for one commitment id are in flight: two passed the limiter
\* and one was refused.
BurstSerializedWitness ==
    /\ DOMAIN pending = 1..MaxCallers
    /\ \E id \in DOMAIN proofCounts :
          /\ \A c \in DOMAIN pending : pending[c].commitmentId = id
          /\ proofCounts[id] = maxProofsPerHour
          /\ Cardinality({c \in DOMAIN pending :
                            pending[c].error = "Rate limit exceeded"}) = 1
          /\ Cardinality({c \in DOMAIN pending :
                            pending[c].error # "Rate limit exceeded"})
                = maxProofsPerHour

---------------------------------------------------------------------------
(* SpecWindow: the limiter over time, with the times of the passes kept    *)

MaxWindowDraws == 15
MaxWindowTicks == 2

\* The length of the limiter's window, and one millisecond.
WindowTimeSteps == {rateWindowMs, 1}

\* generateProof, the time of a pass of the limiter being noted.
GenerateProofLogged(li, ri, rnd) ==
    /\ GenerateProofCall(li, ri, rnd, MaxWindowDraws)
    /\ passLog' = IF ret'.error # "Rate limit exceeded"
                  THEN Append(passLog, <<ret'.commitmentId, now>>)
                  ELSE passLog
    /\ UNCHANGED <<mk, pending, pair, pc, gate, bp>>

WindowNext ==
    \/ \E tier \in TierInputs, e \in ExpirationInputs,
          kx \in KeyScalarInputs, kb \in BlindScalarInputs :
            CreateLicense(tier, e, kx, kb, 2, 3)
    \/ \E q \in LimiterRequestInputs :
            CreateProofRequest(q.proofType, q.requirements)
    \/ \E li \in 1..MaxLicenses, ri \in 1..MaxRequests, rnd \in RandomInputs :
            GenerateProofLogged(li, ri, rnd)
    \/ \E d \in WindowTimeSteps : Tick(d, MaxWindowTicks)

SpecWindow == Init /\ [][WindowNext]_vars

\* The passes of the limiter for a commitment id at times in [from, to).
passesIn(id, from, to) ==
    {i \in DOMAIN passLog : /\ passLog[i][1] = id
                            /\ from <= passLog[i][2]
                            /\ passLog[i][2] < to}

\* C12: in every interval of 3,600,000 ms, wherever it is placed in time, no
\* more than maxProofsPerHour generateProof calls for one commitment id pass
\* the limiter.
RollingHourCeiling ==
    \A i \in DOMAIN passLog :
        Cardinality(passesIn(passLog[i][1], passLog[i][2],
                             passLog[i][2] + rateWindowMs))
            <= maxProofsPerHour

\* C14: a generateProof call for a commitment id whose counter stands at the
\* ceiling, made once the hourly window has elapsed, resets the counters and
\* passes the limiter.
RecoversAfterWindow ==
    [][\A id \in DOMAIN proofCounts :
          (/\ GenerateStepFor(id)
           /\ proofCounts[id] = maxProofsPerHour
           /\ now - proofCountReset > rateWindowMs)
          => (/\ ret'.error # "Rate limit exceeded"
              /\ proofCountReset' = now
              /\ DOMAIN proofCounts' = {id}
              /\ proofCounts'[id] = 1)]_vars

\* A call passed the limiter with a reset, for a commitment id that had
\* used up the ceiling before the reset.
RecoversAfterWindowWitness ==
    /\ ret.op = "generateProof"
    /\ ret.error # "Rate limit exceeded"
    /\ proofCountReset = now
    /\ now > rateWindowMs
    /\ has(proofCounts, ret.commitmentId)
    /\ proofCounts[ret.commitmentId] = 1
    /\ Cardinality(passesIn(ret.commitmentId, 0, now)) = maxProofsPerHour

---------------------------------------------------------------------------
(* SpecHostile: verifyProof given proofs of unknown commitments, malformed *)
(* proofs and proofs that reuse the proofId of another                     *)

\* A commitment id createLicense never returned.
UnknownCommitmentId == "cmt_unknown"

MalformKinds == {"empty", "nonhex", "badtype"}

\* The proof p with every entry of proof.a, proof.b and proof.c empty, or
\* every entry a string that is no hex number, or with a proofType outside
\* the six types.
malform(p, kind) ==
    CASE kind = "empty" ->
           [p EXCEPT !.proof = [a |-> <<"", "">>,
                                b |-> <<<<"", "">>, <<"", "">>>>,
                                c |-> <<"", "">>]]
      [] kind = "nonhex" ->
           [p EXCEPT !.proof = [a |-> <<"zz", "zz">>,
                                b |-> <<<<"zz", "zz">>, <<"zz", "zz">>>>,
                                c |-> <<"zz", "zz">>]]
      [] kind = "badtype" -> [p EXCEPT !.proofType = "membership"]

HostileRequestInputs ==
    {[proofType |-> "license-ownership", requirements |-> noRequirements],
     [proofType |-> "usage-quota",
      requirements |-> [noRequirements EXCEPT !.requiredQuota = 1000]]}

\* slot is the position in proofs of the object handed over, 0 for a copy.
HostileSubmissions ==
    {[proof |-> proofs[i], how |-> "issued", slot |-> i] : i \in DOMAIN proofs}
    \cup {[proof |-> [proofs[i] EXCEPT !.commitmentId = UnknownCommitmentId],
           how |-> "unknown", slot |-> 0] : i \in DOMAIN proofs}
    \cup {[proof |-> [forge(commitments[id], t, ForeignChallenge)
                        EXCEPT !.commitmentId = UnknownCommitmentId],
           how |-> "unknown", slot |-> 0] :
            id \in DOMAIN commitments, t \in ProofTypes}
    \cup {[proof |-> [malform(forge(commitments[id], t, ForeignChallenge), k)
                        EXCEPT !.proofId = "proof_" \o k \o "_" \o t],
           how |-> "malformed", slot |-> 0] :
            id \in DOMAIN commitments, t \in ProofTypes, k \in MalformKinds}
    \cup UNION {{[proof |-> [proofs[i] EXCEPT !.proofType = t],
                  how |-> "retyped", slot |-> 0] :
                    t \in ProofTypes \ {proofs[i].proofType}} :
                i \in DOMAIN proofs}

HostileNext ==
    \/ \E tier \in TierInputs, e \in ExpirationInputs,
          kx \in KeyScalarInputs, kb \in BlindScalarInputs :
            CreateLicense(tier, e, kx, kb, 2, 3)
    \/ \E q \in HostileRequestInputs :
            CreateProofRequest(q.proofType, q.requirements)
    \/ \E li \in 1..MaxLicenses, ri \in 1..MaxRequests, rnd \in RandomInputs :
            GenerateProof(li, ri, rnd, MaxDraws)
    \/ \E sub \in HostileSubmissions : VerifyProof(sub)

SpecHostile == Init /\ [][HostileNext]_vars

\* C16: verifyProof on a proof whose commitmentId is not in the commitment
\* registry returns valid = false with no provenClaims flag true, for every
\* proof type and whatever the other fields of the proof, its proofId
\* included.
UnknownCommitmentRejected ==
    (Verified /\ ~has(commitments, Submitted.commitmentId))
    => (/\ ~Returned.valid
        /\ \A f \in DOMAIN Returned.provenClaims : ~Returned.provenClaims[f])

\* C17: for a proof on a registered commitment with empty or non-hex entries
\* in proof.a/b/c, or a proofType outside the six types, verifyProof does not
\* throw and returns a VerificationResult with valid = false and no
\* provenClaims flag true.
MalformedRejected ==
    (Verified /\ ret.how = "malformed")
    => (/\ ret.ok
        /\ Returned.proofId = Submitted.proofId
        /\ ~Returned.valid
        /\ \A f \in DOMAIN Returned.provenClaims : ~Returned.provenClaims[f])

\* C18: in every VerificationResult verifyProof returns, a provenClaims flag
\* is true only if valid is true and the flag is that of the proof's declared
\* proofType; so at most one flag is true, and none when valid is false.
OnlyDeclaredClaim ==
    Verified =>
        \A f \in DOMAIN Returned.provenClaims :
            Returned.provenClaims[f] =>
                (Returned.valid /\ f = flagOf(Submitted.proofType))

\* C31: a result with valid = false that verifyProof returns for a protocol
\* violation (a commitment that is not registered, a malformed proof) has a
\* reason field that names the violation.
InvalidResultHasReason ==
    (Verified /\ ~Returned.valid /\ ret.how \in {"unknown", "malformed"}) =>
        /\ "reason" \in DOMAIN Returned
        /\ Returned.reason # ""

\* A step is a verifyProof call.
VerifyStep == ret'.op = "verifyProof" /\ ret' # ret

\* The call of the step was answered from the cache, or rejected because its
\* commitment is not registered.
VerifyStepAnsweredEarly ==
    ret'.cacheHit \/ ~has(commitments, ret'.proof[1].commitmentId)

\* C35 as the spec states it: totalProofsVerified is the sum of
\* totalValidProofs and totalInvalidProofs, and it grows by one in exactly the
\* verifyProof calls that ran the verification routine of one of the six proof
\* types; a call answered from the cache or rejected for an unknown commitment
\* changes no counter, no cache entry and no proof.
CountersCountRoutineRuns ==
    /\ [](totalProofsVerified = totalValidProofs + totalInvalidProofs)
    /\ [][VerifyStep =>
            totalProofsVerified' - totalProofsVerified =
                (IF /\ ~VerifyStepAnsweredEarly
                    /\ ret'.proof[1].proofType \in ProofTypes
                 THEN 1 ELSE 0)]_vars
    /\ [][(VerifyStep /\ VerifyStepAnsweredEarly) =>
            UNCHANGED <<totalProofsVerified, totalValidProofs,
                        totalInvalidProofs, proofCache, proofs>>]_vars

\* C35: totalProofsVerified is the sum of totalValidProofs and
\* totalInvalidProofs, and it grows by one in exactly the verifyProof calls
\* that reached the switch on the proof type (whether or not a case of the
\* switch matched); a call answered from the cache or rejected for an unknown
\* commitment changes no counter, no cache entry and no proof.
CountersCountDispatches ==
    /\ [](totalProofsVerified = totalValidProofs + totalInvalidProofs)
    /\ [][VerifyStep =>
            totalProofsVerified' - totalProofsVerified =
                (IF ~VerifyStepAnsweredEarly THEN 1 ELSE 0)]_vars
    /\ [][(VerifyStep /\ VerifyStepAnsweredEarly) =>
            UNCHANGED <<totalProofsVerified, totalValidProofs,
                        totalInvalidProofs, proofCache, proofs>>]_vars

\* A valid proof was counted, and the last call was rejected for an unknown
\* commitment.
CountersCountDispatchesWitness ==
    /\ Verified
    /\ ret.how = "unknown"
    /\ ~ret.cacheHit
    /\ totalProofsVerified = 1
    /\ totalValidProofs = 1
    /\ totalInvalidProofs = 0

---------------------------------------------------------------------------
(* SpecCache: verifyProof around the expiry of a cache entry               *)

MaxCacheTicks == 2

\* One millisecond short of the life of a cache entry, and one millisecond.
CacheTimeSteps == {verificationCacheMs - 1, 1}

\* The proof generateProof returned, and a proof that differs from it under
\* the same proofId.
CacheSubmissions ==
    {[proof |-> proofs[i], how |-> "issued", slot |-> i] : i \in DOMAIN proofs}
    \cup {[proof |-> tamper(proofs[i], "a1"), how |-> "tamper-a1", slot |-> 0] :
            i \in DOMAIN proofs}

CacheNext ==
    \/ \E tier \in TierInputs, e \in ExpirationInputs,
          kx \in KeyScalarInputs, kb \in BlindScalarInputs :
            CreateLicense(tier, e, kx, kb, 2, 3)
    \/ \E q \in HostileRequestInputs :
            CreateProofRequest(q.proofType, q.requirements)
    \/ \E li \in 1..MaxLicenses, ri \in 1..MaxRequests, rnd \in RandomInputs :
            GenerateProof(li, ri, rnd, MaxDraws)
    \/ \E sub \in CacheSubmissions : VerifyProof(sub)
    \/ \E d \in CacheTimeSteps : Tick(d, MaxCacheTicks)

SpecCache == Init /\ [][CacheNext]_vars

\* A step is a verifyProof call for a proof whose proofId has a cache entry.
VerifyStepCached ==
    /\ ret'.op = "verifyProof"
    /\ ticks' = ticks
    /\ has(proofCache, ret'.proof[1].proofId)

\* C20: a verifyProof call for a proofId whose cache entry was stored less
\* than verificationCacheMs ago returns the cached result and changes neither
\* the verification counters, nor the cache, nor the proof, and emits no
\* proof:verified; a call made once the entry's expiry time has been reached
\* verifies the proof again, increments the counters, emits proof:verified
\* and replaces the entry.
CacheWindow ==
    [][VerifyStepCached =>
        LET proof == ret'.proof[1]
            entry == proofCache[proof.proofId]
            age == now - entry.result.verifiedAt
        IN  IF age < verificationCacheMs
            THEN /\ ret'.result[1] = entry.result
                 /\ UNCHANGED <<totalProofsVerified, totalValidProofs,
                                totalInvalidProofs, emitted, proofCache,
                                proofs>>
            ELSE has(commitments, proof.commitmentId) =>
                 /\ ret'.result[1] = uncachedResult(proof)
                 /\ totalProofsVerified' = totalProofsVerified + 1
                 /\ totalValidProofs' + totalInvalidProofs'
                       = totalValidProofs + totalInvalidProofs + 1
                 /\ emitted' = emitted + 1
                 /\ proofCache'[proof.proofId] =
                       [result |-> ret'.result[1],
                        expiresAt |-> now + verificationCacheMs]]_vars

\* A proof verified at time 0 was verified again exactly verificationCacheMs
\* later, and its cache entry replaced.
CacheWindowWitness ==
    /\ ret.op = "verifyProof"
    /\ ~ret.cacheHit
    /\ now = verificationCacheMs
    /\ totalProofsVerified = 2
    /\ emitted = 2
    /\ has(proofCache, Submitted.proofId)
    /\ proofCache[Submitted.proofId].expiresAt = now + verificationCacheMs


---------------------------------------------------------------------------
(* SpecPair: two licenses taken through the same request                   *)
(*                                                                         *)
(* Two licenses are issued, one proof is generated from each for the same  *)
(* request with the same random draws, and each proof is verified against  *)
(* its own registered commitment by an engine that has not seen it before. *)

PairTierInputs == Tiers \X Tiers

\* The oracle's answers for the two license keys.
PairKeyInputs == {<<2, 2>>, <<2, 3>>}

PairExpiration == 3

PairRequestInputs ==
    {[proofType |-> "license-ownership", requirements |-> noRequirements]}
    \cup {[proofType |-> "tier-membership",
           requirements |-> [noRequirements EXCEPT !.minimumTier = m]] :
             m \in {"starter", "professional"}}
    \cup {[proofType |-> "feature-access",
           requirements |-> [noRequirements EXCEPT !.requiredFeature = f]] :
             f \in {"basic-crawling"}}
    \cup {[proofType |-> "usage-quota",
           requirements |-> [noRequirements EXCEPT !.requiredQuota = q]] :
             q \in {1000}}
    \cup {[proofType |-> "worker-allocation",
           requirements |-> [noRequirements EXCEPT !.requestedWorkers = w]] :
             w \in {1, 5}}
    \cup {[proofType |-> "time-validity",
           requirements |-> [noRequirements EXCEPT !.currentTimestamp = t]] :
             t \in {2}}

\* The number of random values createLicense draws.
LicenseDraws == 5

PairInit ==
    /\ EngineInit
    /\ mk = mkIdle
    /\ pending = <<>>
    /\ passLog = <<>>
    /\ pc = pcIdle
    /\ gate = gateIdle
    /\ bp = bpIdle
    /\ pair \in {[stage |-> "input", tiers |-> ts, keys |-> ks,
                  request |-> [requestId |-> generateId("req", 2 * LicenseDraws),
                               timestamp |-> 0,
                               proofType |-> q.proofType,
                               requirements |-> q.requirements,
                               challenge |-> randomHex(2 * LicenseDraws + 1),
                               expiresAt |-> proofExpirationMs],
                  rnd |-> rnd, licenses |-> <<>>, proofs |-> <<>>,
                  transcripts |-> <<>>, results |-> <<>>] :
                    ts \in PairTierInputs, ks \in PairKeyInputs,
                    q \in PairRequestInputs, rnd \in RandomInputs}

PairCreateLicense ==
    /\ pair.stage = "input"
    /\ pair' = [pair EXCEPT
           !.stage = "licensed",
           !.licenses =
               [i \in 1..2 |->
                   newLicense(pair.tiers[i], PairExpiration,
                              (i - 1) * LicenseDraws, pair.keys[i], 1, 2, 3, 0)]]
    /\ UNCHANGED <<engineVars, mk, pending, passLog, pc, gate, bp>>

\* hashToScalar on the key and the blinding factors of a license.
pairOracle(i) ==
    LET secret == pair.licenses[i].secret
    IN  Extend(Extend(Extend(Extend(<<>>,
            secret.licenseKey, pair.keys[i]),
            secret.blindingFactors.license, 1),
            secret.blindingFactors.tier, 2),
            secret.blindingFactors.expiration, 3)

PairGenerateProof ==
    /\ pair.stage = "licensed"
    /\ LET nonce == randomHex(2 * LicenseDraws + 2)
           built(i) == buildProof(pairOracle(i), pair.licenses[i].secret,
                                  pair.licenses[i].commitment, pair.request,
                                  nonce, pair.rnd)
       IN  pair' = [pair EXCEPT
               !.stage = "proved",
               !.proofs =
                   [i \in 1..2 |->
                       IF built(i).ok
                       THEN <<assembleProof(
                                generateId("proof", 2 * LicenseDraws + 2 + i),
                                0, pair.request, built(i),
                                pair.licenses[i].commitment, nonce)>>
                       ELSE <<>>],
               !.transcripts =
                   [i \in 1..2 |->
                       IF built(i).ok
                       THEN <<transcriptOf(pair.licenses[i].commitment,
                                           pair.request, built(i).proof, nonce)>>
                       ELSE <<>>]]
    /\ UNCHANGED <<engineVars, mk, pending, passLog, pc, gate, bp>>

PairVerifyProof ==
    /\ pair.stage = "proved"
    /\ pair' = [pair EXCEPT
           !.stage = "verified",
           !.results =
               [i \in 1..2 |->
                   IF pair.proofs[i] = <<>> THEN <<>>
                   ELSE LET proof == pair.proofs[i][1]
                        IN  <<verificationResult(proof,
                                verifyByType(proof, pair.licenses[i].commitment),
                                0)>>]]
    /\ UNCHANGED <<engineVars, mk, pending, passLog, pc, gate, bp>>

PairNext == PairCreateLicense \/ PairGenerateProof \/ PairVerifyProof

SpecPair == PairInit /\ [][PairNext]_vars

\* What a VerificationResult says apart from its id and its times.
resultContent(result) ==
    [valid |-> result.valid, provenClaims |-> result.provenClaims]

pairRank(i) == tierHierarchy[pair.tiers[i]]

\* Both licenses are at or above the minimum tier of a tier-membership request.
PairMeetsTier ==
    /\ pair.request.proofType = "tier-membership"
    /\ \A i \in 1..2 :
          pairRank(i) >= tierHierarchy[pair.request.requirements.minimumTier]

\* C21: for a tier-membership request, the results of verifying the proofs of
\* two licenses whose tiers are both at or above the minimum tier say the same
\* apart from ids and times: valid is true, meetsTierRequirement is true, and
\* every other claim has the same value in both.
TierResultHidesRank ==
    (pair.stage = "verified" /\ PairMeetsTier) =>
        /\ \A i \in 1..2 : pair.results[i] # <<>>
        /\ resultContent(pair.results[1][1]) = resultContent(pair.results[2][1])
        /\ \A i \in 1..2 :
              /\ pair.results[i][1].valid
              /\ pair.results[i][1].provenClaims["meetsTierRequirement"]

TierResultHidesRankWitness ==
    /\ pair.stage = "verified"
    /\ PairMeetsTier
    /\ pairRank(1) = tierHierarchy[pair.request.requirements.minimumTier]
    /\ pairRank(2) > pairRank(1)
    /\ pair.results[1] # <<>>
    /\ pair.results[2] # <<>>
    /\ resultContent(pair.results[1][1]) = resultContent(pair.results[2][1])


PairProved ==
    /\ pair.stage \in {"proved", "verified"}
    /\ \A i \in 1..2 : pair.proofs[i] # <<>>

\* The fields of a worker-allocation ZKProof that are neither drawn at random
\* (proofId, nonce, the scalars r and c, the commitment a[0] blinded by r) nor
\* copied from the public commitment (commitmentId, c[0]).
workerClearFields(proof) ==
    <<proof.proofType, proof.timestamp, proof.challenge, proof.verified,
      proof.proof.b[1][2], proof.proof.b[2], proof.publicInputs>>

\* C22: a proof carries no attribute of the witness in the clear: the
\* worker-allocation proofs of two licenses that both satisfy the same request
\* agree in every field that is neither derived from fresh randomness nor
\* from the public commitment, whatever the maxWorkers of the two licenses.
WorkerProofHidesMaxWorkers ==
    (PairProved /\ pair.request.proofType = "worker-allocation") =>
        workerClearFields(pair.proofs[1][1]) = workerClearFields(pair.proofs[2][1])


\* C25: the scalar c of a proof is the hash of a transcript that holds the
\* public commitment the proof is stated against, the first message, the
\* request's challenge and the nonce, for each of the six proof types: with
\* a collision-free hash, two proofs with the same transcript are stated
\* against the same commitment and have the same first message.
TranscriptBindsCommitment ==
    (PairProved /\ pair.transcripts[1] = pair.transcripts[2]) =>
        /\ pair.proofs[1][1].proof.c[1] = pair.proofs[2][1].proof.c[1]
        /\ pair.proofs[1][1].proof.a = pair.proofs[2][1].proof.a

---------------------------------------------------------------------------
(* Properties of the proof object (Spec)                                   *)

\* The components of a LicenseSecret other than the witness data.
secretsOf(secret) ==
    {secret.licenseKey, secret.blindingFactors.license,
     secret.blindingFactors.tier, secret.blindingFactors.expiration,
     secret.masterSecret, secret.proofSecret}

\* Every string a ZKProof holds.
proofStrings(proof) ==
    {proof.proofId, proof.proofType, proof.commitmentId, proof.nonce,
     proof.challenge}
    \cup {proof.proof.a[i] : i \in 1..2}
    \cup {proof.proof.b[i][j] : i \in 1..2, j \in 1..2}
    \cup {proof.proof.c[i] : i \in 1..2}
    \cup {proof.publicInputs[i] : i \in DOMAIN proof.publicInputs}

\* C23: no field of a proof generateProof returns holds a component of the
\* LicenseSecret it was generated from: the license key, the license, tier
\* and expiration blinding factors, the master secret and the proof secret.
ProofHidesSecret ==
    (ret.op = "generateProof" /\ ret.ok) =>
        proofStrings(ret.proof[1]) \cap secretsOf(licenses[ret.args[1]].secret) = {}


\* The path elements a feature-access proof carries: the entries of
\* proof.b[0] other than the filler '0'.
packedPath(proof) == SelectSeq(proof.proof.b[1], LAMBDA e : e # "0")

\* C33: the path a feature-access proof carries is the whole path of the
\* license's MerkleProof for the feature, in order, and folding it from the
\* leaf with the indices the proof carries ends at the commitment's
\* featureMerkleRoot, for every tier and feature, trees deeper than two
\* levels included.
PackedPathComplete ==
    (ret.op = "generateProof" /\ ret.ok
     /\ ret.proof[1].proofType = "feature-access") =>
        LET proof == ret.proof[1]
            lic == licenses[ret.args[1]]
            feature == requests[ret.args[2]].requirements.requiredFeature
            merkleProof == lic.secret.witnessData.featureMerkleProofs[
                CHOOSE i \in merkleProofsOf(lic.secret, feature) : TRUE]
        IN  /\ packedPath(proof) = merkleProof.path
            /\ foldPath(proof.proof.a[1], proof.proof.b[1],
                        splitIndices(proof.proof.b[2][1]))
                  = lic.commitment.featureMerkleRoot

\* C28: verifyProof changes no field of the proof object it is given: after
\* a verifyProof call the proofs the caller holds are as they were before it,
\* whatever the verdict.
VerifyLeavesProof ==
    [][ret'.op = "verifyProof" => proofs' = proofs]_vars

\* C30: no call of the engine changes a LicenseSecret or its WitnessData:
\* every step leaves each license pair createLicense returned as it was, so
\* usedQuota keeps the value createLicense gave it and a generated
\* usage-quota proof consumes no quota.
WitnessUnchanged ==
    [][\A i \in DOMAIN licenses :
          /\ i \in DOMAIN licenses'
          /\ licenses'[i].secret = licenses[i].secret]_vars

\* A usage-quota proof was generated and accepted, and the quota used is
\* what createLicense set.
WitnessUnchangedWitness ==
    /\ Verified
    /\ ret.how = "issued"
    /\ Submitted.proofType = "usage-quota"
    /\ Returned.valid
    /\ totalProofsGenerated > 0
    /\ licenseOf(Submitted.commitmentId).secret.witnessData.usedQuota = 0

---------------------------------------------------------------------------
(* SpecTranscript: proofs altered after generation                         *)

\* The field of the proof body that holds the scalar c of the proof type.
challengeScalarField(proofType) ==
    CASE proofType \in {"license-ownership", "tier-membership"} -> "b12"
      [] proofType = "feature-access" -> "b22"
      [] OTHER -> "a2"

AlterKinds == {"c", "challenge", "nonce"}

\* The proof with its embedded c, its challenge field or its nonce replaced
\* by another well-formed value.
alter(p, kind) ==
    CASE kind = "c" -> tamper(p, challengeScalarField(p.proofType))
      [] kind = "challenge" -> [p EXCEPT !.challenge = flip(@)]
      [] kind = "nonce" -> [p EXCEPT !.nonce = flip(@)]

TranscriptRequestInputs ==
    {q \in RequestInputs :
        \/ q.proofType \in {"license-ownership", "tier-membership",
                            "worker-allocation"}
        \/ q.requirements.requiredFeature = "basic-crawling"
        \/ q.requirements.requiredQuota = 1000
        \/ q.requirements.currentTimestamp = 2}

TranscriptSubmissions ==
    {[proof |-> proofs[i], how |-> "issued", slot |-> i] : i \in DOMAIN proofs}
    \cup {[proof |-> alter(proofs[i], k), how |-> "alter-" \o k, slot |-> 0] :
            i \in DOMAIN proofs, k \in AlterKinds}

TranscriptNext ==
    \/ \E tier \in TierInputs, e \in ExpirationInputs,
          kx \in KeyScalarInputs, kb \in BlindScalarInputs :
            CreateLicense(tier, e, kx, kb, 2, 3)
    \/ \E q \in TranscriptRequestInputs :
            CreateProofRequest(q.proofType, q.requirements)
    \/ \E li \in 1..MaxLicenses, ri \in 1..MaxRequests, rnd \in RandomInputs :
            GenerateProof(li, ri, rnd, MaxDraws)
    \/ \E sub \in TranscriptSubmissions : VerifyProof(sub)

SpecTranscript == Init /\ [][TranscriptNext]_vars

\* C24: the verifier accepts a proof only if its embedded c is the hash of
\* the stored commitment, the first message, proof.challenge and proof.nonce:
\* a proof whose embedded c, challenge field or nonce was altered after
\* generation, examined by the verifier and not answered from the cache, is
\* rejected.
AlteredTranscriptRejected ==
    (Verified /\ ~ret.cacheHit
     /\ ret.how \in {"alter-" \o k : k \in AlterKinds}) =>
        ~Returned.valid


---------------------------------------------------------------------------
(* SpecCommit: the algebra of pedersenCommit                               *)

\* The group operation on the commitments of pedersenCommit, which are
\* residues modulo fieldModulus combined linearly: addition of residues.
commitmentSum(c1, c2) ==
    padStart(toHex(jsRem(parseHex(c1) + parseHex(c2), fieldModulus)))

\* The group operation on the commitments of the browser variant, which are
\* products of powers modulo fieldModulus: multiplication of residues.
commitmentProduct(c1, c2) ==
    padStart(toHex(jsRem(parseHex(c1) * parseHex(c2), fieldModulus)))

CommitInit ==
    /\ EngineInit
    /\ mk = mkIdle
    /\ pending = <<>>
    /\ passLog = <<>>
    /\ pair = pairIdle
    /\ gate = gateIdle
    /\ bp = bpIdle
    /\ pc \in {[stage |-> "input", v |-> v, r |-> r, v2 |-> v2, r2 |-> r2] :
                 v \in Scalars, r \in Scalars, v2 \in Scalars, r2 \in Scalars}

\* Both variants commit to (v, r), to (v2, r2) and to the sums.
Commit ==
    /\ pc.stage = "input"
    /\ pc' = [stage |-> "committed", v |-> pc.v, r |-> pc.r,
              v2 |-> pc.v2, r2 |-> pc.r2,
              c1 |-> pedersenCommit(pc.v, pc.r),
              c2 |-> pedersenCommit(pc.v2, pc.r2),
              cSum |-> pedersenCommit(pc.v + pc.v2, pc.r + pc.r2),
              real1 |-> pedersenCommitReal(pc.v, pc.r),
              real2 |-> pedersenCommitReal(pc.v2, pc.r2),
              realSum |-> pedersenCommitReal(pc.v + pc.v2, pc.r + pc.r2)]
    /\ UNCHANGED <<engineVars, mk, pending, passLog, pair, gate, bp>>

CommitNext == Commit

SpecCommit == CommitInit /\ [][CommitNext]_vars

\* C26: pedersenCommit is binding: two equal commitments commit to the same
\* value, for all values and blindings in the scalar range.
CommitmentBinding ==
    (pc.stage = "committed" /\ pc.c1 = pc.c2) => pc.v = pc.v2

\* C27: pedersenCommit is additively homomorphic: the commitments to (a, r1)
\* and to (b, r2) combined under the group operation are the commitment to
\* (a + b, r1 + r2), for all a, b, r1, r2 in the scalar range, in the engine
\* and in its browser variant.
CommitmentHomomorphic ==
    pc.stage = "committed" =>
        /\ commitmentSum(pc.c1, pc.c2) = pc.cSum
        /\ commitmentProduct(pc.real1, pc.real2) = pc.realSum

\* Sums that pass the group order and a combination that wraps the modulus.
CommitmentHomomorphicWitness ==
    /\ pc.stage = "committed"
    /\ pc.v + pc.v2 >= groupOrder
    /\ pc.r + pc.r2 >= groupOrder
    /\ parseHex(pc.c1) + parseHex(pc.c2) >= fieldModulus
    /\ parseHex(pc.real1) * parseHex(pc.real2) >= fieldModulus
    /\ pc.c1 # pc.c2
    /\ commitmentSum(pc.c1, pc.c2) = pc.cSum
    /\ commitmentProduct(pc.real1, pc.real2) = pc.realSum


---------------------------------------------------------------------------
(* SpecQuota: usage-quota proofs over the quotas of the tiers              *)

QuotaTierInputs == Tiers

QuotaRequestInputs ==
    {[proofType |-> "usage-quota",
      requirements |-> [noRequirements EXCEPT !.requiredQuota = q]] :
        q \in {-1, 0, 1001} \cup
              {tierLimits[t].monthlyQuota : t \in Tiers \ {"unlimited"}}}

QuotaSubmissions ==
    {[proof |-> proofs[i], how |-> "issued", slot |-> i] : i \in DOMAIN proofs}

QuotaNext ==
    \/ \E tier \in QuotaTierInputs, e \in ExpirationInputs,
          kx \in KeyScalarInputs, kb \in BlindScalarInputs :
            CreateLicense(tier, e, kx, kb, 2, 3)
    \/ \E q \in QuotaRequestInputs :
            CreateProofRequest(q.proofType, q.requirements)
    \/ \E li \in 1..MaxLicenses, ri \in 1..MaxRequests, rnd \in RandomInputs :
            GenerateProof(li, ri, rnd, MaxDraws)
    \/ \E sub \in QuotaSubmissions : VerifyProof(sub)

SpecQuota == Init /\ [][QuotaNext]_vars

\* C29: generateProof returns a usage-quota proof only for a witness whose
\* usedQuota is at most its usageQuota, whatever the requiredQuota of the
\* request, zero and negative values included.
QuotaProofWithinQuota ==
    (ret.op = "generateProof" /\ ret.ok
     /\ ret.proof[1].proofType = "usage-quota") =>
        LET w == licenses[ret.args[1]].secret.witnessData
        IN  w.usedQuota <= w.usageQuota


\* The generateProof call that returned last: its license's tier and the
\* requiredQuota of its request.
QuotaCallTier == licenses[ret.args[1]].secret.witnessData.tier
QuotaCallRequired == requests[ret.args[2]].requirements.requiredQuota

\* C36: a usage-quota generateProof call that passes the limiter fails with
\* 'Insufficient quota' for a license of tier 'unlimited' and every
\* requiredQuota >= 0, and returns a proof for a license of any other tier
\* and every requiredQuota from 0 to the tier's monthlyQuota.
UnlimitedTierHasNoQuota ==
    (/\ ret.op = "generateProof"
     /\ ret.error # "Rate limit exceeded"
     /\ requests[ret.args[2]].proofType = "usage-quota"
     /\ QuotaCallRequired >= 0)
    => IF QuotaCallTier = "unlimited"
       THEN ~ret.ok /\ ret.error = "Insufficient quota"
       ELSE QuotaCallRequired <= tierLimits[QuotaCallTier].monthlyQuota
                => ret.ok

\* The unlimited license was refused a proof of zero quota.
UnlimitedTierHasNoQuotaWitness ==
    /\ ret.op = "generateProof"
    /\ ret.error = "Insufficient quota"
    /\ QuotaCallTier = "unlimited"
    /\ QuotaCallRequired = 0

---------------------------------------------------------------------------
(* SpecPaywall: the page guarded by PaymentGateway                         *)
(*                                                                         *)
(* gate.premium is localStorage['veritas_premium_access'], which outlives  *)
(* the page; gate.paid records that a payment was completed at the         *)
(* provider; gate.zk is what the engine of the page (this.zk) returned to  *)
(* the activateLicense call in flight.                                     *)

PaymentMethods == {"stripe_basic", "stripe_premium", "paypal_premium",
                   "crypto_premium"}

\* REAL_MODE_CONFIG.LINKS: the methods with a link to redirect to.
paymentLinks == PaymentMethods

\* The session_id query parameter of a page load the user makes: absent, or
\* a value of the user's choosing.
SessionInputs == {"none", "arbitrary"}

MaxLoads == 5

PaywallInit ==
    /\ EngineInit
    /\ mk = mkIdle
    /\ pending = <<>>
    /\ passLog = <<>>
    /\ pair = pairIdle
    /\ pc = pcIdle
    /\ bp = bpIdle
    /\ gate = [page |-> "closed", premium |-> FALSE, paid |-> FALSE,
               activation |-> "idle", zk |-> <<>>, method |-> "", loads |-> 0]

\* new PaymentGateway() on DOMContentLoaded: the session_id test of the
\* constructor, then checkAccess.
construct(g, hasSession) ==
    LET premium == g.premium \/ hasSession
    IN  [g EXCEPT !.premium = premium,
                  !.page = IF premium THEN "unlocked" ELSE "paywall",
                  !.activation = "idle", !.zk = <<>>, !.method = ""]

\* The user opens or reloads the page, from anywhere.
LoadPage(session) ==
    /\ gate.loads < MaxLoads
    /\ gate' = [construct(gate, session # "none") EXCEPT !.loads = gate.loads + 1]
    /\ UNCHANGED <<engineVars, mk, pending, passLog, pair, pc, bp>>

\* processPayment(method): with the paywall rendered and a link configured
\* the page is left for the provider's.
ProcessPayment(method) ==
    /\ gate.page = "paywall"
    /\ method \in paymentLinks
    /\ gate' = [gate EXCEPT !.page = "checkout", !.method = method,
                            !.activation = "idle", !.zk = <<>>]
    /\ UNCHANGED <<engineVars, mk, pending, passLog, pair, pc, bp>>

\* The payment is completed at Stripe or PayPal, which sends the browser
\* back to the page with a session_id.
CompletePayment ==
    /\ gate.page = "checkout"
    /\ gate.method \in {"stripe_basic", "stripe_premium", "paypal_premium"}
    /\ gate' = construct([gate EXCEPT !.paid = TRUE], TRUE)
    /\ UNCHANGED <<engineVars, mk, pending, passLog, pair, pc, bp>>

\* activateLicense() runs on the engine of the page (this.zk) and sleeps
\* between its calls; the user may leave the page at each sleep.  First
\* call: createLicense('enterprise', a year from now).
BeginActivation(e, kx) ==
    /\ gate.page = "paywall"
    /\ gate.activation = "idle"
    /\ gate' = [gate EXCEPT
           !.activation = "licensed",
           !.zk = <<[license |-> newLicense("enterprise", e, 0, kx, 1, 2, 3, 0)]>>]
    /\ UNCHANGED <<engineVars, mk, pending, passLog, pair, pc, bp>>

\* createProofRequest('tier-membership', {minimumTier: 'enterprise'})
RequestChallenge ==
    /\ gate.page = "paywall"
    /\ gate.activation = "licensed"
    /\ gate' = [gate EXCEPT
           !.activation = "challenged",
           !.zk = <<[license |-> gate.zk[1].license,
                     request |->
                        [requestId |-> generateId("req", LicenseDraws),
                         timestamp |-> 0,
                         proofType |-> "tier-membership",
                         requirements |->
                            [noRequirements EXCEPT !.minimumTier = "enterprise"],
                         challenge |-> randomHex(LicenseDraws + 1),
                         expiresAt |-> proofExpirationMs]]>>]
    /\ UNCHANGED <<engineVars, mk, pending, passLog, pair, pc, bp>>

\* generateProof(secret, commitment, request); a throw ends the call in the
\* catch block.
ProveTier(rnd) ==
    /\ gate.page = "paywall"
    /\ gate.activation = "challenged"
    /\ LET lic == gate.zk[1].license
           request == gate.zk[1].request
           nonce == randomHex(LicenseDraws + 2)
           built == buildProof(<<>>, lic.secret, lic.commitment, request,
                               nonce, rnd)
       IN  gate' = IF built.ok
                   THEN [gate EXCEPT
                            !.activation = "proved",
                            !.zk = <<[license |-> lic, request |-> request,
                                      proof |-> assembleProof(
                                          generateId("proof", LicenseDraws + 3),
                                          0, request, built, lic.commitment,
                                          nonce)]>>]
                   ELSE [gate EXCEPT !.activation = "idle", !.zk = <<>>]
    /\ UNCHANGED <<engineVars, mk, pending, passLog, pair, pc, bp>>

\* verifyProof(proof) and the test of result.valid.
VerifyTier ==
    /\ gate.page = "paywall"
    /\ gate.activation = "proved"
    /\ LET proof == gate.zk[1].proof
           result == verificationResult(proof,
                         verifyByType(proof, gate.zk[1].license.commitment), 0)
       IN  gate' = IF result.valid
                   THEN [gate EXCEPT
                            !.activation = "verified",
                            !.zk = <<[license |-> gate.zk[1].license,
                                      request |-> gate.zk[1].request,
                                      proof |-> proof, result |-> result]>>]
                   ELSE [gate EXCEPT !.activation = "idle", !.zk = <<>>]
    /\ UNCHANGED <<engineVars, mk, pending, passLog, pair, pc, bp>>

\* activateLicense() after result.valid: the flag is stored and the overlay
\* removed.
GrantAccess ==
    /\ gate.page = "paywall"
    /\ gate.activation = "verified"
    /\ gate' = [gate EXCEPT !.premium = TRUE, !.page = "unlocked",
                            !.activation = "granted"]
    /\ UNCHANGED <<engineVars, mk, pending, passLog, pair, pc, bp>>

PaywallNext ==
    \/ \E session \in SessionInputs : LoadPage(session)
    \/ \E method \in PaymentMethods : ProcessPayment(method)
    \/ CompletePayment
    \/ \E e \in ExpirationInputs, kx \in KeyScalarInputs \cup {3} :
            BeginActivation(e, kx)
    \/ RequestChallenge
    \/ \E rnd \in RandomInputs : ProveTier(rnd)
    \/ VerifyTier
    \/ GrantAccess

SpecPaywall == PaywallInit /\ [][PaywallNext]_vars

\* C32: the premium-access flag is set and the paywall unlocked only after a
\* completed Stripe or PayPal payment: in every state where the flag is
\* stored or the page is shown without the paywall, a payment was completed.
PaywallHolds ==
    gate.page # "closed" =>
        ((gate.premium \/ gate.page = "unlocked") => gate.paid)

---------------------------------------------------------------------------
(* SpecBackpack: the Neural Backpack (FIFOBuffer, PersistenceLayer,        *)
(* NeuralBackpack) with god mode off                                       *)
(*                                                                         *)
(* Each caller makes one call. A call runs without interruption from one   *)
(* await to the next. bp.disk is the messages array of storage/            *)
(* backpack.json; bp.saveDebounce is the armed timer with the state its    *)
(* callback will write and the call whose promise it resolves; bp.writes   *)
(* are the writeFile operations in flight; bp.log is the history of the    *)
(* messages recorded, oldest first, emptied by clear.                      *)

\* BACKPACK_CAPACITY of the source is 10.
BACKPACK_CAPACITY == 2

MaxBackpackCallers == 3
Callers == 1..MaxBackpackCallers

\* The messages array of the file a previous session left: no file or no
\* message, or a full buffer.
PersistedInputs ==
    {<<>>,
     <<[id |-> "p1", status |-> "pending"], [id |-> "p2", status |-> "pending"]>>}

StatusInputs == {"completed"}

\* The ids updateStatus is called with: a persisted message, a message of
\* this session, and an id no message has.
MessageIdInputs == {"p1", "m1", "missing"}

Range(q) == {q[i] : i \in DOMAIN q}

\* items.slice(-n)
lastOf(items, n) ==
    IF Len(items) <= n THEN items
    ELSE SubSeq(items, Len(items) - n + 1, Len(items))

\* FIFOBuffer.push
push(buffer, item) ==
    IF Len(buffer) >= BACKPACK_CAPACITY
    THEN Append(Tail(buffer), item)
    ELSE Append(buffer, item)

\* FIFOBuffer.loadFrom
loadFrom(items) == lastOf(items, BACKPACK_CAPACITY)

idsOf(messages) == [i \in DOMAIN messages |-> messages[i].id]

callIdle == [kind |-> "", stage |-> "idle"]

BackpackInit ==
    /\ EngineInit
    /\ mk = mkIdle
    /\ pending = <<>>
    /\ passLog = <<>>
    /\ pair = pairIdle
    /\ pc = pcIdle
    /\ gate = gateIdle
    /\ \E persisted \in PersistedInputs :
           bp = [buffer |-> <<>>, sequenceCounter |-> 0,
                 initialized |-> FALSE, status |-> <<>>,
                 disk |-> persisted, pendingSave |-> FALSE,
                 saveDebounce |-> <<>>, writes |-> {},
                 calls |-> [c \in Callers |-> callIdle],
                 log |-> <<>>]

notBackpack == <<engineVars, mk, pending, passLog, pair, pc, gate>>

\* saveState with god mode off: PersistenceLayer.save(buildState()) called by
\* c. The timer armed before, if any, is cleared and its promise is left
\* unresolved; the new timer holds the messages array built now.
saveState(b, c) ==
    [b EXCEPT !.pendingSave = TRUE,
              !.saveDebounce = <<[owner |-> c, messages |-> b.buffer]>>,
              !.calls[c].stage = "saving"]

\* recordMessage from the creation of the message to the await of saveState.
recordBody(b, c) ==
    LET id == "m" \o ToString(b.sequenceCounter + 1)
        pushed == [b EXCEPT !.buffer = push(b.buffer, id),
                            !.sequenceCounter = b.sequenceCounter + 1,
                            !.status = Extend(b.status, id, "pending"),
                            !.log = Append(b.log, id)]
    IN  saveState(pushed, c)

\* recordMessage(content) is called: an initialized backpack records at
\* once, another awaits initialize().
RecordMessage(c) ==
    /\ bp.calls[c].stage = "idle"
    /\ bp' = IF bp.initialized
             THEN recordBody([bp EXCEPT !.calls[c].kind = "recordMessage"], c)
             ELSE [bp EXCEPT !.calls[c] =
                      [kind |-> "recordMessage", stage |-> "loading"]]
    /\ UNCHANGED notBackpack

\* initialize() is called: it returns at once on an initialized backpack and
\* awaits persistence.load() on another.
Initialize(c) ==
    /\ bp.calls[c].stage = "idle"
    /\ bp' = [bp EXCEPT !.calls[c] =
                 [kind |-> "initialize",
                  stage |-> IF bp.initialized THEN "done" ELSE "loading"]]
    /\ UNCHANGED notBackpack

\* persistence.load() of the initialize of c resolves: the rest of
\* initialize. The history takes the loaded messages for older than every
\* message of this session, once.
LoadDone(c) ==
    /\ bp.calls[c].stage = "loading"
    /\ LET existing == bp.disk
           loads == Len(existing) > 0
       IN  bp' = [bp EXCEPT
                    !.buffer = IF loads THEN loadFrom(idsOf(existing)) ELSE @,
                    !.status = IF loads
                               THEN [id \in DOMAIN @ \cup Range(idsOf(existing)) |->
                                       IF \E i \in DOMAIN existing :
                                              existing[i].id = id
                                       THEN (CHOOSE m \in Range(existing) :
                                                 m.id = id).status
                                       ELSE @[id]]
                               ELSE @,
                    !.log = IF loads /\ ~bp.initialized
                            THEN idsOf(existing) \o @ ELSE @,
                    !.initialized = TRUE,
                    !.calls[c].stage =
                        IF bp.calls[c].kind = "initialize" THEN "done"
                        ELSE "resumed"]
    /\ UNCHANGED notBackpack

\* recordMessage goes on after its await of initialize().
RecordResume(c) ==
    /\ bp.calls[c].stage = "resumed"
    /\ bp' = recordBody(bp, c)
    /\ UNCHANGED notBackpack

\* updateStatus(messageId, status)
UpdateStatus(c, messageId, status) ==
    /\ bp.calls[c].stage = "idle"
    /\ bp' = IF messageId \in Range(bp.buffer)
             THEN saveState([bp EXCEPT !.status[messageId] = status,
                                       !.calls[c].kind = "updateStatus"], c)
             ELSE [bp EXCEPT !.calls[c] =
                      [kind |-> "updateStatus", stage |-> "done"]]
    /\ UNCHANGED notBackpack

\* clear()
Clear(c) ==
    /\ bp.calls[c].stage = "idle"
    /\ bp' = saveState([bp EXCEPT !.buffer = <<>>, !.log = <<>>,
                                  !.calls[c].kind = "clear"], c)
    /\ UNCHANGED notBackpack

\* The debounce timer fires: its callback serializes the state (the messages
\* as they are now) and awaits writeFile.
TimerFire ==
    /\ bp.saveDebounce # <<>>
    /\ LET t == bp.saveDebounce[1]
           data == [i \in DOMAIN t.messages |->
                       [id |-> t.messages[i],
                        status |-> bp.status[t.messages[i]]]]
       IN  bp' = [bp EXCEPT !.saveDebounce = <<>>,
                            !.writes = @ \cup {[owner |-> t.owner,
                                                data |-> data]}]
    /\ UNCHANGED notBackpack

\* A writeFile completes: the promise of save() is resolved and the call
\* that awaited it returns.
WriteDone(c) ==
    /\ \E w \in bp.writes : w.owner = c
    /\ LET w == CHOOSE x \in bp.writes : x.owner = c
       IN  bp' = [bp EXCEPT !.writes = @ \ {w},
                            !.disk = w.data,
                            !.pendingSave = FALSE,
                            !.calls[c].stage = "done"]
    /\ UNCHANGED notBackpack

BackpackNext ==
    \/ \E c \in Callers : RecordMessage(c)
    \/ \E c \in Callers : Initialize(c)
    \/ \E c \in Callers : LoadDone(c)
    \/ \E c \in Callers : RecordResume(c)
    \/ \E c \in Callers, status \in StatusInputs, messageId \in MessageIdInputs :
            UpdateStatus(c, messageId, status)
    \/ \E c \in Callers : Clear(c)
    \/ TimerFire
    \/ \E c \in Callers : WriteDone(c)

SpecBackpack == BackpackInit /\ [][BackpackNext]_vars

\* The messages recorded after message id, in the history.
laterThan(log, id) ==
    Cardinality({i \in DOMAIN log :
                    \E j \in DOMAIN log : log[j] = id /\ j < i})

\* C37: the buffer holds exactly the last min(n, BACKPACK_CAPACITY) of the n
\* messages recorded, in arrival order, and a message leaves the buffer only
\* in a clear or when BACKPACK_CAPACITY later messages have been recorded,
\* whatever the interleaving of the calls, those made before initialize has
\* completed on a backpack with persisted state included.
BackpackRetention ==
    /\ [](bp.buffer = lastOf(bp.log, BACKPACK_CAPACITY))
    /\ [][\A id \in Range(bp.buffer) :
            id \notin Range(bp'.buffer) =>
                \/ bp'.log = <<>>
                \/ laterThan(bp'.log, id) >= BACKPACK_CAPACITY]_vars

\* The event loop runs every timer that stays armed and every continuation
\* whose await has resolved; the file system completes every read and write.
BackpackFairness ==
    /\ WF_vars(TimerFire)
    /\ WF_vars(\E c \in Callers : WriteDone(c))
    /\ WF_vars(\E c \in Callers : LoadDone(c))
    /\ WF_vars(\E c \in Callers : RecordResume(c))

SpecBackpackFair == BackpackInit /\ [][BackpackNext]_vars /\ BackpackFairness

\* C38: every recordMessage, updateStatus and clear call that awaits the save
\* of its state returns in the end, also when another call starts a save
\* before the debounce timer of the first has fired.
SaveReturns ==
    \A c \in Callers :
        (bp.calls[c].stage = "saving") ~> (bp.calls[c].stage = "done")

====
